---- MODULE Spec2Model ----
(***************************************************************************)
(* A model of valideer: the schema compiler (parse, parsing, register,     *)
(* register_factory and the metaclass registration of base.py), the        *)
(* validators of validators.py and the error model of errors.py.           *)
(*                                                                         *)
(* Python values are records tagged by the field t; every type of value    *)
(* keeps its payload under a field name of its own, so two records with    *)
(* the same fields always hold payloads of the same kind.                  *)
(***************************************************************************)
EXTENDS Integers, Sequences, FiniteSets, TLC

(* ------------------------------------------------------------------ *)
(* Python values                                                        *)
(* ------------------------------------------------------------------ *)

PyNone == [t |-> "none"]
PyBool(b) == [t |-> "bool", b |-> b]
PyInt(n) == [t |-> "int", i |-> n]
\* A str is the sequence of its pieces: "?integer" is <<"?", "integer">>.
PyStr(s) == [t |-> "str", s |-> s]
PyList(l) == [t |-> "list", l |-> l]
PyTuple(l) == [t |-> "tuple", u |-> l]
\* A dict is a function from its keys (Python values) to its values.
PyDict(d) == [t |-> "dict", d |-> d]
\* A class object: a Validator subclass or a plain type such as int.
PyClass(c) == [t |-> "class", c |-> c]
\* A routine (function, method): a predicate or an adaptor.
PyFunc(f) == [t |-> "func", f |-> f]
\* A bare object(): Object.REMOVE is one.
PyObject(o) == [t |-> "object", o |-> o]
\* A raised exception that is not a ValidationError.
PyExc(x) == [t |-> "exc", x |-> x]

EmptyDict == PyDict([k \in {} |-> PyNone])
Name(s) == PyStr(<<s>>)

\* Object.REMOVE = object()
REMOVE == PyObject("REMOVE")

\* The classes with the Validator metaclass.
ValidatorClasses ==
    {"Validator", "Type", "Boolean", "Integer", "Number", "String",
     "AnyOf", "AllOf", "ChainOf",
     "Nullable", "NonNullable", "Condition", "AdaptBy", "Range",
     "HomogeneousSequence", "HeterogeneousSequence", "Object",
     "MyInteger", "SubInteger"}

\* Classes a caller defines: class MyInteger(Integer) declares name = "integer"
\* in its body, class SubInteger(Integer) declares no name and inherits it.
UserClasses == {"MyInteger", "SubInteger"}

\* isinstance(obj, Validator)
IsValidator(obj) == obj.t = "V"

\* inspect.isclass(obj) and issubclass(obj, Validator)
IsValidatorClass(obj) == obj.t = "class" /\ obj.c \in ValidatorClasses

\* isinstance(value, types), types given as the set of the value kinds that
\* are instances of them.
IsInstance(value, types) == value.t \in types

\* The value kinds that are instances of a plain type or an abstract base.
InstancesOf(c) ==
    CASE c = "bool" -> {"bool"}
      [] c = "int" -> {"int", "bool"}
      [] c = "Integral" -> {"int", "bool"}
      [] c = "Number" -> {"int", "bool"}
      [] c = "basestring" -> {"str"}
      [] c = "Sequence" -> {"list", "tuple", "str"}
      [] c = "Mapping" -> {"dict"}
      [] OTHER -> {}

\* obj.startswith(prefix) for a str obj
StartsWith(obj, prefix) == Len(obj.s) > 0 /\ Head(obj.s) = prefix

\* obj[1:] for a str obj that starts with a one-character prefix
DropFirst(obj) == PyStr(Tail(obj.s))

\* Python truth value
Truthy(v) ==
    CASE v.t = "none" -> FALSE
      [] v.t = "bool" -> v.b
      [] v.t = "int" -> v.i # 0
      [] v.t = "str" -> Len(v.s) > 0
      [] v.t = "list" -> Len(v.l) > 0
      [] v.t = "tuple" -> Len(v.u) > 0
      [] v.t = "dict" -> DOMAIN v.d # {}
      [] OTHER -> TRUE

\* The iteration order of a dict or a set: arbitrary, but fixed for a given
\* set of keys.
RECURSIVE IterOrder(_)
IterOrder(S) ==
    IF S = {} THEN <<>>
    ELSE LET x == CHOOSE y \in S : TRUE
         IN <<x>> \o IterOrder(S \ {x})

(* ------------------------------------------------------------------ *)
(* The compiler's world: the module globals of base.py and the class   *)
(* attributes of Object that parse reads and writes.                    *)
(*   reg  _NAMED_VALIDATORS            fac  _VALIDATOR_FACTORIES        *)
(*   req  Object.REQUIRED_PROPERTIES   add  Object.ADDITIONAL_PROPERTIES*)
(*   oid  the identity the next constructed object gets                 *)
(* ------------------------------------------------------------------ *)

\* A call's outcome: the world after it and the value returned or the
\* exception raised.
Ok(W, v) == [W |-> W, k |-> "ok", v |-> v]
Raise(W, x) == [W |-> W, k |-> "raise", v |-> PyExc(x)]

\* type.__call__: a new object gets the next identity.
New(W, cls, fields) ==
    Ok([W EXCEPT !.oid = @ + 1], [t |-> "V", cls |-> cls, oid |-> W.oid] @@ fields)

\* A ghost of the world, W.log, lists the factory calls of the running parse:
\* the factory, its argument and what it returned or raised.
Logged(W, f, obj, r) ==
    [r EXCEPT !.W.log = Append(r.W.log, [f |-> f, obj |-> obj, k |-> r.k, v |-> r.v])]

(* ------------------------------------------------------------------ *)
(* The routines and factories a caller supplies                         *)
(* ------------------------------------------------------------------ *)

\* Factories a caller registers with register_factory: each returns a
\* Validator for the descriptors it knows and None otherwise; JunkFactory
\* breaks that contract for the descriptor 2 and returns a value that is
\* neither.
UserFactories == {"IntFactory", "JunkFactory"}

(* ------------------------------------------------------------------ *)
(* Constructors and parse                                               *)
(* ------------------------------------------------------------------ *)

RECURSIVE Parse(_, _)
RECURSIVE ParseAll(_, _)
RECURSIVE TryFactories(_, _, _)
RECURSIVE NewObject(_, _, _, _)

\* Validator.__init__ of the Type family: the class attributes name,
\* accept_types and reject_types.
ClassName(cls) ==
    CASE cls = "Boolean" -> Name("boolean")
      [] cls \in {"Integer", "MyInteger", "SubInteger"} -> Name("integer")
      [] cls = "Number" -> Name("number")
      [] cls = "String" -> Name("string")
      [] OTHER -> PyNone

AcceptTypes(cls) ==
    CASE cls = "Boolean" -> InstancesOf("bool")
      [] cls \in {"Integer", "MyInteger", "SubInteger"} -> InstancesOf("Integral")
      [] cls = "Number" -> InstancesOf("Number")
      [] cls = "String" -> InstancesOf("basestring")
      [] cls \in {"HomogeneousSequence", "HeterogeneousSequence"} -> InstancesOf("Sequence")
      [] cls = "Object" -> InstancesOf("Mapping")
      [] OTHER -> {}

RejectTypes(cls) ==
    CASE cls \in {"Integer", "Number", "MyInteger", "SubInteger"} -> InstancesOf("bool")
      [] cls \in {"HomogeneousSequence", "HeterogeneousSequence"} -> InstancesOf("basestring")
      [] OTHER -> {}

TypeFields(cls) ==
    [name |-> ClassName(cls), accept |-> AcceptTypes(cls), reject |-> RejectTypes(cls)]

\* Type(accept_types=None, reject_types=None) and its subclasses without an
\* __init__ of their own (Boolean, Integer, Number)
NewType(cls, accept_types, W) ==
    New(W, cls, IF accept_types = PyNone THEN TypeFields(cls)
                ELSE [TypeFields(cls) EXCEPT !.accept = InstancesOf(accept_types.c)])

\* String(min_length=None, max_length=None)
NewString(min_length, max_length, W) ==
    New(W, "String", TypeFields("String") @@
                     [min_length |-> min_length, max_length |-> max_length])

\* AnyOf(*schemas), AllOf(*schemas), ChainOf(*schemas): the three __init__
\* are self._validators = map(parse, schemas).
NewComposite(cls, schemas, W) ==
    LET Wrap(r) ==
            IF r.k = "raise" THEN r
            ELSE New(r.W, cls, [validators |-> r.v.l])
    IN Wrap(ParseAll(schemas, W))

\* Nullable(schema, default=None)
NewNullable(schema, default, W) ==
    IF IsValidator(schema)
    THEN New(W, "Nullable", [validator |-> schema, default |-> default])
    ELSE LET Wrap(r) ==
                 IF r.k = "raise" THEN r
                 ELSE LET validator == IF r.v.cls \in {"Nullable", "NonNullable"}
                                       THEN r.v.validator ELSE r.v
                      IN New(r.W, "Nullable",
                             [validator |-> validator, default |-> default])
         IN Wrap(Parse(schema, W))

\* NonNullable(schema=None)
NewNonNullable(schema, W) ==
    IF schema # PyNone /\ ~IsValidator(schema)
    THEN LET Wrap(r) ==
                 IF r.k = "raise" THEN r
                 ELSE LET validator == IF r.v.cls \in {"Nullable", "NonNullable"}
                                       THEN r.v.validator ELSE r.v
                      IN New(r.W, "NonNullable", [validator |-> validator])
         IN Wrap(Parse(schema, W))
    ELSE New(W, "NonNullable", [validator |-> schema])

\* Condition(predicate, traps=Exception)
NewCondition(predicate, traps, W) ==
    IF predicate.t # "func" THEN Raise(W, "TypeError")
    ELSE New(W, "Condition", [predicate |-> predicate, traps |-> traps])

\* AdaptBy(adaptor, traps=Exception)
NewAdaptBy(adaptor, traps, W) ==
    New(W, "AdaptBy", [adaptor |-> adaptor, traps |-> traps])

\* Range(schema=None, min_value=None, max_value=None)
NewRange(schema, min_value, max_value, W) ==
    LET Wrap(r) ==
            IF r.k = "raise" THEN r
            ELSE New(r.W, "Range", [validator |-> r.v, min_value |-> min_value,
                                    max_value |-> max_value])
    IN Wrap(IF schema # PyNone THEN Parse(schema, W) ELSE Ok(W, PyNone))

\* HomogeneousSequence(item_schema=None, min_length=None, max_length=None)
NewHomogeneousSequence(item_schema, min_length, max_length, W) ==
    LET Wrap(r) ==
            IF r.k = "raise" THEN r
            ELSE New(r.W, "HomogeneousSequence",
                     TypeFields("HomogeneousSequence") @@
                     [item_validator |-> r.v, min_length |-> min_length,
                      max_length |-> max_length])
    IN Wrap(IF item_schema # PyNone THEN Parse(item_schema, W) ELSE Ok(W, PyNone))

\* HeterogeneousSequence(*item_schemas)
NewHeterogeneousSequence(item_schemas, W) ==
    LET Wrap(r) ==
            IF r.k = "raise" THEN r
            ELSE New(r.W, "HeterogeneousSequence",
                     TypeFields("HeterogeneousSequence") @@ [item_validators |-> r.v.l])
    IN Wrap(ParseAll(item_schemas, W))

\* Object(optional={}, required={}, additional=None); optional and required
\* are dicts of name -> schema.
NewObject(optional, required, additional, W) ==
    LET additional1 == IF additional = PyNone THEN W.add ELSE additional
        merged == [k \in DOMAIN optional.d \cup DOMAIN required.d |->
                      IF k \in DOMAIN required.d THEN required.d[k]
                      ELSE optional.d[k]]
        names == IterOrder(DOMAIN merged)
        Wrap(ra, rn) ==
            IF rn.k = "raise" THEN rn
            ELSE New(rn.W, "Object",
                     TypeFields("Object") @@
                     [named_validators |->
                         [i \in 1..Len(names) |-> [name |-> names[i], validator |-> rn.v.l[i]]],
                      required_keys |-> DOMAIN required.d,
                      all_keys |-> DOMAIN merged,
                      additional |-> ra.v])
        Named(ra) ==
            IF ra.k = "raise" THEN ra
            ELSE Wrap(ra, ParseAll([i \in 1..Len(names) |-> merged[names[i]]], ra.W))
    IN Named(IF additional1.t # "bool" /\ additional1 # REMOVE
             THEN Parse(additional1, W) ELSE Ok(W, additional1))

\* cls(): a Validator subclass called without arguments.  Nullable,
\* Condition and AdaptBy have a required parameter.
Instantiate(cls, W) ==
    CASE cls \in {"Nullable", "Condition", "AdaptBy"} -> Raise(W, "TypeError")
      [] cls = "Validator" -> New(W, "Validator", [name |-> PyNone])
      [] cls \in {"Type", "Boolean", "Integer", "Number", "MyInteger", "SubInteger"} ->
            NewType(cls, PyNone, W)
      [] cls = "String" -> NewString(PyNone, PyNone, W)
      [] cls \in {"AnyOf", "AllOf", "ChainOf"} -> NewComposite(cls, <<>>, W)
      [] cls = "NonNullable" -> NewNonNullable(PyNone, W)
      [] cls = "Range" -> NewRange(PyNone, PyNone, PyNone, W)
      [] cls = "HomogeneousSequence" -> NewHomogeneousSequence(PyNone, PyNone, PyNone, W)
      [] cls = "HeterogeneousSequence" -> NewHeterogeneousSequence(<<>>, W)
      [] cls = "Object" -> NewObject(EmptyDict, EmptyDict, PyNone, W)

\* map(parse, schemas): the validators as a list, or the first exception.
ParseAll(schemas, W) ==
    IF schemas = <<>> THEN Ok(W, PyList(<<>>))
    ELSE LET Joined(r, rest) ==
                 IF rest.k = "raise" THEN rest
                 ELSE Ok(rest.W, PyList(<<r.v>> \o rest.v.l))
             Rest(r) ==
                 IF r.k = "raise" THEN r
                 ELSE Joined(r, ParseAll(Tail(schemas), r.W))
         IN Rest(Parse(Head(schemas), W))

\* A classification in which a "?" key follows the default as a key without
\* prefix does (mutant of ClassifyKeys)
ClassifyKeysByDefault(obj, names, required_properties, acc) ==
    LET keys == {names[i] : i \in 1..Len(names)}
        Strip(key) == IF StartsWith(key, "+") \/ StartsWith(key, "?")
                      THEN DropFirst(key) ELSE key
        Required(key) == StartsWith(key, "+") \/ Truthy(required_properties)
        Put(ks) == [n \in {Strip(key) : key \in ks} |->
                       obj.d[CHOOSE key \in ks : Strip(key) = n]]
    IN [optional |-> Put({key \in keys : ~Required(key)}),
        required |-> Put({key \in keys : Required(key)})]

\* The for loop of _ObjectFactory over obj.iteritems(): names is the keys
\* left to visit, acc the dicts optional and required built so far.
RECURSIVE ClassifyKeys(_, _, _, _)
ClassifyKeys(obj, names, required_properties, acc) ==
    IF names = <<>> THEN acc
    ELSE LET key == Head(names)
             value == obj.d[key]
             put(d, k) == [x \in DOMAIN d \cup {k} |-> IF x = k THEN value ELSE d[x]]
             acc1 ==
                 IF StartsWith(key, "+")
                 THEN [acc EXCEPT !.required = put(@, DropFirst(key))]
                 ELSE IF StartsWith(key, "?")
                 THEN [acc EXCEPT !.optional = put(@, DropFirst(key))]
                 ELSE IF Truthy(required_properties)
                 THEN [acc EXCEPT !.required = put(@, key)]
                 ELSE [acc EXCEPT !.optional = put(@, key)]
         IN ClassifyKeys(obj, Tail(names), required_properties, acc1)

\* _ObjectFactory(obj): parse calls it with obj alone, so both
\* required_properties and additional_properties are None.
ObjectFactory(obj, W) ==
    IF obj.t = "dict"
    THEN IF \E key \in DOMAIN obj.d : key.t # "str"
         THEN Raise(W, "AttributeError")
         ELSE LET required_properties == W.req
                  acc == ClassifyKeys(obj, IterOrder(DOMAIN obj.d), required_properties,
                                      [optional |-> EmptyDict.d, required |-> EmptyDict.d])
              IN NewObject(PyDict(acc.optional), PyDict(acc.required), PyNone, W)
    ELSE Ok(W, PyNone)

\* _HeterogeneousSequenceFactory
HeterogeneousSequenceFactory(obj, W) ==
    IF obj.t = "tuple" THEN NewHeterogeneousSequence(obj.u, W) ELSE Ok(W, PyNone)

\* _HomogeneousSequenceFactory
HomogeneousSequenceFactory(obj, W) ==
    IF obj.t = "list" /\ Len(obj.l) <= 1
    THEN NewHomogeneousSequence(IF Len(obj.l) = 1 THEN obj.l[1] ELSE PyNone,
                                PyNone, PyNone, W)
    ELSE Ok(W, PyNone)

\* _PatternFactory: no compiled regular expression is among the values of
\* the model, so isinstance(obj, _SRE_Pattern) is false.
PatternFactory(obj, W) == Ok(W, PyNone)

\* _TypeFactory
TypeFactory(obj, W) ==
    IF obj.t = "class" THEN NewType("Type", obj, W) ELSE Ok(W, PyNone)

\* _ConditionFactory
ConditionFactory(obj, W) ==
    IF obj.t = "func" THEN NewCondition(obj, {"Exception"}, W) ELSE Ok(W, PyNone)

\* _NonNullableFactory
NonNullableFactory(obj, W) ==
    IF obj.t = "str" /\ StartsWith(obj, "+")
    THEN NewNonNullable(DropFirst(obj), W) ELSE Ok(W, PyNone)

\* _NullableFactory
NullableFactory(obj, W) ==
    IF obj.t = "str" /\ StartsWith(obj, "?")
    THEN NewNullable(DropFirst(obj), PyNone, W) ELSE Ok(W, PyNone)

\* The factories of a caller.
UserFactory(f, obj, W) ==
    CASE f = "IntFactory" ->
            IF obj \in {PyInt(1), PyInt(2)} THEN Instantiate("Integer", W)
            ELSE Ok(W, PyNone)
      [] f = "JunkFactory" ->
            IF obj = PyInt(1) THEN Instantiate("String", W)
            ELSE IF obj = PyInt(2) THEN Ok(W, PyInt(0))
            ELSE Ok(W, PyNone)

\* factory(obj) for an entry of _VALIDATOR_FACTORIES
CallFactory(f, obj, W) ==
    CASE f = "ObjectFactory" -> ObjectFactory(obj, W)
      [] f = "HeterogeneousSequenceFactory" -> HeterogeneousSequenceFactory(obj, W)
      [] f = "HomogeneousSequenceFactory" -> HomogeneousSequenceFactory(obj, W)
      [] f = "PatternFactory" -> PatternFactory(obj, W)
      [] f = "TypeFactory" -> TypeFactory(obj, W)
      [] f = "ConditionFactory" -> ConditionFactory(obj, W)
      [] f = "NonNullableFactory" -> NonNullableFactory(obj, W)
      [] f = "NullableFactory" -> NullableFactory(obj, W)
      [] OTHER -> UserFactory(f, obj, W)

\* The for loop of parse over _VALIDATOR_FACTORIES: validator is None when no
\* factory is left, else the first result that is not None.
TryFactories(factories, obj, W) ==
    IF factories = <<>> THEN Ok(W, PyNone)
    ELSE LET Loop(validator) ==
                 IF validator.k = "raise" \/ validator.v # PyNone THEN validator
                 ELSE TryFactories(Tail(factories), obj, validator.W)
         IN Loop(Logged(W, Head(factories), obj,
                        CallFactory(Head(factories), obj, W)))

\* obj is hashable: _NAMED_VALIDATORS[obj] raises TypeError for a dict or a
\* list (and KeyError for a key that is not there).
Hashable(obj) == obj.t \notin {"dict", "list"}

\* A parse that returns whatever it found (mutant of ParseResult)
ParseResultUnchecked(r) == r

\* The last lines of parse: anything but a Validator is a SchemaError.
ParseResult(r) ==
    IF r.k = "raise" \/ IsValidator(r.v) THEN r ELSE Raise(r.W, "SchemaError")

\* A parse that instantiates the class of a name and leaves the class in the
\* registry (mutant of Parse)
ParseNotStored(obj, W) ==
    IF IsValidator(obj) THEN Ok(W, obj)
    ELSE IF IsValidatorClass(obj) THEN ParseResult(Instantiate(obj.c, W))
    ELSE IF Hashable(obj) /\ obj \in DOMAIN W.reg
    THEN IF IsValidatorClass(W.reg[obj])
         THEN ParseResult(Instantiate(W.reg[obj].c, W))
         ELSE ParseResult(Ok(W, W.reg[obj]))
    ELSE ParseResult(TryFactories(W.fac, obj, W))

\* parse(obj), required_properties and additional_properties both None
Parse(obj, W) ==
    IF IsValidator(obj) THEN Ok(W, obj)
    ELSE IF IsValidatorClass(obj) THEN ParseResult(Instantiate(obj.c, W))
    ELSE IF Hashable(obj) /\ obj \in DOMAIN W.reg
    THEN LET validator == W.reg[obj]
         IN IF IsValidatorClass(validator)
            THEN LET Bind(r) ==
                         IF r.k = "raise" THEN r
                         ELSE ParseResult([r EXCEPT !.W.reg = [@ EXCEPT ![obj] = r.v]])
                 IN Bind(Instantiate(validator.c, W))
            ELSE ParseResult(Ok(W, validator))
    ELSE ParseResult(TryFactories(W.fac, obj, W))

(* ------------------------------------------------------------------ *)
(* State                                                                *)
(* ------------------------------------------------------------------ *)

VARIABLES
    NAMED_VALIDATORS,       \* base._NAMED_VALIDATORS: name -> class or instance
    VALIDATOR_FACTORIES,    \* base._VALIDATOR_FACTORIES: list of factories
    REQUIRED_PROPERTIES,    \* Object.REQUIRED_PROPERTIES
    ADDITIONAL_PROPERTIES,  \* Object.ADDITIONAL_PROPERTIES
    nextOid,                \* the identity of the next object constructed
    held,                   \* the validators the caller holds references to
    ret,                    \* the last call: its arguments, the world before, its outcome
    registered,             \* ghost: the factories in the order they were registered
    frames,                 \* the parsing blocks that are open, innermost last
    heap,                   \* the lists and dicts of the caller, by address
    pc,                     \* where each thread is in the call it is running
    lock                    \* base._VALIDATOR_FACTORIES_LOCK: owner and count

vars == <<NAMED_VALIDATORS, VALIDATOR_FACTORIES, REQUIRED_PROPERTIES,
          ADDITIONAL_PROPERTIES, nextOid, held, ret, registered,
          frames, heap, pc, lock>>

\* The threads of the program
Threads == {1, 2}

\* A thread that runs no call of the library
Idle == [at |-> "idle"]

\* An RLock nobody holds
Unlocked == [owner |-> 0, count |-> 0]

\* Bounds of the model
MaxOid == 4
MaxHeld == 2
MaxFactories == 2
MaxCtxOid == 5
MaxDepth == 2

\* The world a call starts in
World ==
    [reg |-> NAMED_VALIDATORS, fac |-> VALIDATOR_FACTORIES,
     req |-> REQUIRED_PROPERTIES, add |-> ADDITIONAL_PROPERTIES,
     oid |-> nextOid, log |-> <<>>]

\* The world a call leaves behind
Commit(W) ==
    /\ NAMED_VALIDATORS' = W.reg
    /\ VALIDATOR_FACTORIES' = W.fac
    /\ REQUIRED_PROPERTIES' = W.req
    /\ ADDITIONAL_PROPERTIES' = W.add
    /\ nextOid' = W.oid

\* The caller keeps a reference to a validator it was returned.
Keep(r) ==
    held' = IF r.k = "ok" /\ IsValidator(r.v) /\ Cardinality(held) < MaxHeld
            THEN held \cup {r.v} ELSE held

\* The record of a call: its arguments, the registry entry of its first
\* argument before the call (None when it has none) and its outcome.
Call(op, obj, arg, r) ==
    [op |-> op, obj |-> obj, arg |-> arg, k |-> r.k, v |-> r.v, log |-> r.W.log,
     entry0 |-> IF Hashable(obj) /\ obj \in DOMAIN NAMED_VALIDATORS
                THEN NAMED_VALIDATORS[obj] ELSE PyNone]

\* The registry once validators.py is imported: _MetaValidator.__new__ binds
\* the name of every class that declares one to the class.
ImportedRegistry ==
    [n \in {Name("boolean"), Name("integer"), Name("number"), Name("string")} |->
        CASE n = Name("boolean") -> PyClass("Boolean")
          [] n = Name("integer") -> PyClass("Integer")
          [] n = Name("number") -> PyClass("Number")
          [] n = Name("string") -> PyClass("String")]

\* The decorators of validators.py in the order they run at import.
ImportedFactories ==
    <<"NullableFactory", "NonNullableFactory", "ConditionFactory", "TypeFactory",
      "PatternFactory", "HomogeneousSequenceFactory", "HeterogeneousSequenceFactory",
      "ObjectFactory">>

Reverse(s) == [i \in 1..Len(s) |-> s[Len(s) + 1 - i]]

\* The state once the package is imported
Imported ==
    /\ NAMED_VALIDATORS = ImportedRegistry
    /\ VALIDATOR_FACTORIES = Reverse(ImportedFactories)
    /\ REQUIRED_PROPERTIES = PyBool(FALSE)
    /\ ADDITIONAL_PROPERTIES = PyBool(TRUE)
    /\ nextOid = 1
    /\ held = {}
    /\ registered = ImportedFactories
    /\ ret = [op |-> "import", obj |-> PyNone, arg |-> PyNone, k |-> "ok", v |-> PyNone,
              log |-> <<>>, entry0 |-> PyNone]
    /\ frames = <<>>
    /\ pc = [t \in Threads |-> Idle]
    /\ lock = Unlocked

Init ==
    /\ Imported
    /\ heap = <<>>

(* ------------------------------------------------------------------ *)
(* The calls of the schema compiler                                     *)
(* ------------------------------------------------------------------ *)

\* The descriptors a caller passes to parse
Descriptors ==
    {Name("integer"), Name("foo"), PyStr(<<"?", "integer">>),
     PyClass("Integer"), PyClass("Condition"), PyInt(1), PyInt(2)}

\* The names a caller registers validators under
RegisterNames == {Name("integer")}

\* parse(obj)
DoParse(obj) ==
    /\ nextOid < MaxOid
    /\ LET Return(r) ==
               /\ Commit(r.W)
               /\ Keep(r)
               /\ ret' = Call("parse", obj, PyNone, r)
       IN Return(Parse(obj, World))
    /\ UNCHANGED <<registered, frames, heap, pc, lock>>

\* A register that binds before it checks (mutant of Register)
RegisterBindsFirst(name, validator, W) ==
    LET W1 == [W EXCEPT !.reg = [n \in DOMAIN @ \cup {name} |->
                                    IF n = name THEN validator ELSE @[n]]]
    IN IF ~IsValidator(validator) THEN Raise(W1, "TypeError") ELSE Ok(W1, PyNone)

\* register(name, validator)
Register(name, validator, W) ==
    IF ~IsValidator(validator) THEN Raise(W, "TypeError")
    ELSE Ok([W EXCEPT !.reg = [n \in DOMAIN @ \cup {name} |->
                                  IF n = name THEN validator ELSE @[n]]], PyNone)

DoRegister(name, validator) ==
    /\ LET r == Register(name, validator, World)
       IN /\ Commit(r.W)
          /\ ret' = Call("register", name, validator, r)
    /\ UNCHANGED <<held, registered, frames, heap, pc, lock>>

\* A register_factory that appends (mutant of RegisterFactory)
RegisterFactoryAppends(func, W) ==
    Ok([W EXCEPT !.fac = Append(@, func)], PyFunc(func))

\* register_factory(func)
RegisterFactory(func, W) ==
    Ok([W EXCEPT !.fac = <<func>> \o @], PyFunc(func))

DoRegisterFactory(func) ==
    /\ Len(VALIDATOR_FACTORIES) < Len(ImportedFactories) + MaxFactories
    /\ LET r == RegisterFactory(func, World)
       IN /\ Commit(r.W)
          /\ ret' = Call("register_factory", PyFunc(func), PyNone, r)
    /\ registered' = Append(registered, func)
    /\ UNCHANGED <<held, frames, heap, pc, lock>>

\* attrs.get("name") of a class statement: the name its body declares
DeclaredName(cls) ==
    CASE cls = "MyInteger" -> Name("integer")
      [] OTHER -> PyNone

\* _MetaValidator.__new__: a class statement with Validator's metaclass
MetaValidatorNew(cls, W) ==
    LET validator_type == PyClass(cls)
        validator_name == DeclaredName(cls)
    IN IF validator_name # PyNone
       THEN Ok([W EXCEPT !.reg = [n \in DOMAIN @ \cup {validator_name} |->
                                     IF n = validator_name THEN validator_type ELSE @[n]]],
               validator_type)
       ELSE Ok(W, validator_type)

DefineClass(cls) ==
    /\ LET r == MetaValidatorNew(cls, World)
       IN /\ Commit(r.W)
          /\ ret' = Call("class", DeclaredName(cls), PyClass(cls), r)
    /\ UNCHANGED <<held, registered, frames, heap, pc, lock>>

Next ==
    \/ \E obj \in Descriptors \cup held : DoParse(obj)
    \/ \E cls \in UserClasses : DefineClass(cls)
    \/ \E name \in RegisterNames, validator \in held \cup {PyClass("int")} :
          DoRegister(name, validator)
    \/ \E func \in UserFactories : DoRegisterFactory(func)

Spec == Init /\ [][Next]_vars

(* ------------------------------------------------------------------ *)
(* Claims about the schema compiler (specification Spec)                *)
(* ------------------------------------------------------------------ *)

\* The factory calls of the last parse for the descriptor it was given (the
\* calls for nested descriptors left out)
TopCalls == SelectSeq(ret.log, LAMBDA e : e.obj = ret.obj)

\* The last parse went to the factory chain: its descriptor is no Validator,
\* no Validator subclass and no registry key.
ToFactories ==
    /\ ret.op = "parse"
    /\ ~IsValidator(ret.obj)
    /\ ~IsValidatorClass(ret.obj)
    /\ ret.entry0 = PyNone

\* The Validator subclasses whose constructor has a required parameter
NeedArguments == {"Nullable", "Condition", "AdaptBy"}

C2_FactoryOrder ==
    /\ VALIDATOR_FACTORIES = Reverse(registered)
    /\ ret.op = "register_factory" =>
          /\ ret.k = "ok"
          /\ ret.v = ret.obj
          /\ Head(VALIDATOR_FACTORIES) = ret.obj.f
    /\ ToFactories =>
          /\ Len(TopCalls) <= Len(VALIDATOR_FACTORIES)
          /\ \A i \in 1..Len(TopCalls) :
                /\ TopCalls[i].f = VALIDATOR_FACTORIES[i]
                /\ i < Len(TopCalls) => TopCalls[i].k = "ok" /\ TopCalls[i].v = PyNone
          /\ Len(TopCalls) < Len(VALIDATOR_FACTORIES) =>
                /\ Len(TopCalls) > 0
                /\ TopCalls[Len(TopCalls)].k = "raise" \/ TopCalls[Len(TopCalls)].v # PyNone
          /\ ret.k = "ok" => Len(TopCalls) > 0 /\ ret.v = TopCalls[Len(TopCalls)].v

\* C2 witness: two different factories of the caller are registered and the
\* one registered last answered the parse.
C2_Witness ==
    /\ ToFactories
    /\ Len(registered) = Len(ImportedFactories) + 2
    /\ registered[Len(registered)] # registered[Len(registered) - 1]
    /\ Len(TopCalls) = 1
    /\ TopCalls[1].f = registered[Len(registered)]
    /\ ret.k = "ok"

\* The entry of name in the registry, None when it has none
Entry(reg, name) == IF name \in DOMAIN reg THEN reg[name] ELSE PyNone

\* C3: register(name, v) raises TypeError and leaves the registry as it is
\* when v is no Validator instance; otherwise it binds name to v and leaves
\* the other names as they are; a name bound to an instance stays bound to it
\* until a register call or a class definition binds the name again; and
\* parse(name) of a name bound to an instance returns that instance itself.
C3_Register ==
    /\ [][/\ (ret'.op = "register" /\ ~IsValidator(ret'.arg)) =>
               /\ ret'.k = "raise" /\ ret'.v = PyExc("TypeError")
               /\ NAMED_VALIDATORS' = NAMED_VALIDATORS
          /\ (ret'.op = "register" /\ IsValidator(ret'.arg)) =>
               /\ ret'.k = "ok"
               /\ DOMAIN NAMED_VALIDATORS' = DOMAIN NAMED_VALIDATORS \cup {ret'.obj}
               /\ \A n \in DOMAIN NAMED_VALIDATORS' :
                     NAMED_VALIDATORS'[n] = IF n = ret'.obj THEN ret'.arg
                                            ELSE NAMED_VALIDATORS[n]
          /\ \A n \in DOMAIN NAMED_VALIDATORS :
               (IsValidator(NAMED_VALIDATORS[n])
                   /\ Entry(NAMED_VALIDATORS', n) # NAMED_VALIDATORS[n]) =>
               ret'.op \in {"register", "class"} /\ ret'.obj = n /\ ret'.k = "ok"
          /\ (ret'.op = "parse" /\ IsValidator(Entry(NAMED_VALIDATORS, ret'.obj))) =>
               ret'.k = "ok" /\ ret'.v = NAMED_VALIDATORS[ret'.obj]
         ]_vars

\* C3 witness: a register call failed with TypeError while the name was bound
\* to an instance by an earlier register call, and the binding is in force.
C3_Witness ==
    /\ ret.op = "register"
    /\ ret.k = "raise"
    /\ IsValidator(ret.entry0)
    /\ ret.entry0.cls = "Nullable"
    /\ NAMED_VALIDATORS[ret.obj] = ret.entry0

\* C24: a parse of a name that the registry binds to a Validator class
\* makes one instance of the class, binds the name to it and returns it; a
\* parse of a name bound to an instance returns that instance, makes no
\* object and leaves the registry as it is; the entry of a name changes
\* only from the class to an instance of it in a parse (of the name, or of a
\* descriptor that holds the name), in a register call for the name and in
\* the definition of a class that declares the name; the definition
\* of a class that declares no name leaves the registry as it is.
C24_Caching ==
    [][/\ (ret'.op = "parse" /\ IsValidatorClass(Entry(NAMED_VALIDATORS, ret'.obj))) =>
            /\ ret'.k = "ok"
            /\ IsValidator(ret'.v)
            /\ ret'.v.cls = NAMED_VALIDATORS[ret'.obj].c
            /\ ret'.v.oid = nextOid
            /\ nextOid' = nextOid + 1
            /\ NAMED_VALIDATORS' = [NAMED_VALIDATORS EXCEPT ![ret'.obj] = ret'.v]
       /\ (ret'.op = "parse" /\ IsValidator(Entry(NAMED_VALIDATORS, ret'.obj))) =>
            /\ ret'.k = "ok"
            /\ ret'.v = NAMED_VALIDATORS[ret'.obj]
            /\ nextOid' = nextOid
            /\ NAMED_VALIDATORS' = NAMED_VALIDATORS
       /\ \A n \in DOMAIN NAMED_VALIDATORS \cup DOMAIN NAMED_VALIDATORS' :
            Entry(NAMED_VALIDATORS', n) # Entry(NAMED_VALIDATORS, n) =>
               \/ /\ ret'.op = "parse"
                  /\ IsValidatorClass(Entry(NAMED_VALIDATORS, n))
                  /\ IsValidator(Entry(NAMED_VALIDATORS', n))
                  /\ NAMED_VALIDATORS'[n].cls = NAMED_VALIDATORS[n].c
               \/ ret'.op \in {"register", "class"} /\ ret'.obj = n /\ ret'.k = "ok"
       /\ (ret'.op = "class" /\ ret'.obj = PyNone) => NAMED_VALIDATORS' = NAMED_VALIDATORS
      ]_vars

\* C24 witness: the name integer was bound to an instance of the class that
\* a class statement had bound it to, made by an earlier parse; the last
\* parse of the name returned that instance and no object was made since.
C24_Witness ==
    /\ ret.op = "parse"
    /\ ret.obj = Name("integer")
    /\ IsValidator(ret.entry0)
    /\ ret.entry0.cls = "MyInteger"
    /\ ret.k = "ok"
    /\ ret.v = ret.entry0
    /\ NAMED_VALIDATORS[Name("integer")] = ret.entry0
    /\ ret.entry0.oid = nextOid - 1

(* ------------------------------------------------------------------ *)
(* Errors (errors.py)                                                   *)
(* ------------------------------------------------------------------ *)

\* ValidationError(msg, value): msg is the sequence of the pieces of the
\* message, context starts empty.
ValidationError(msg, value) ==
    [t |-> "VE", msg |-> msg, value |-> value, context |-> <<>>]

\* An add_context that puts the entry first (mutant of AddContext)
AddContextFirst(ex, context) == [ex EXCEPT !.context = <<context>> \o @]

\* ValidationError.add_context
AddContext(ex, context) == [ex EXCEPT !.context = Append(@, context)]

\* The "(at ...)" of ValidationError.to_string: the entries of the context in
\* reverse, the first as str(context) and every other as "[%r]" % context
Location(context) ==
    [i \in 1..Len(context) |->
        [format |-> IF i > 1 THEN "[%r]" ELSE "str",
         context |-> context[Len(context) + 1 - i]]]

\* An add_errors that appends an aggregate as it does a single error (mutant
\* of AddErrors)
AddErrorsNested(self, errors) ==
    IF \A i \in 1..Len(errors) : errors[i].t \in {"VE", "MVE"}
    THEN [k |-> "ok", v |-> [self EXCEPT !.errors = @ \o errors],
          self |-> [self EXCEPT !.errors = @ \o errors]]
    ELSE [k |-> "raise", v |-> PyExc("TypeError"), self |-> self]

\* MultipleValidationError.add_errors(*errors): errors is the tuple of the
\* positional arguments; self is the aggregate as the loop left it.
RECURSIVE AddErrors(_, _)
AddErrors(self, errors) ==
    IF errors = <<>> THEN [k |-> "ok", v |-> self, self |-> self]
    ELSE LET error == Head(errors)
         IN IF error.t = "MVE"
            THEN AddErrors([self EXCEPT !.errors = @ \o error.errors], Tail(errors))
            ELSE IF error.t = "VE"
            THEN AddErrors([self EXCEPT !.errors = Append(@, error)], Tail(errors))
            ELSE [k |-> "raise", v |-> PyExc("TypeError"), self |-> self]

\* MultipleValidationError(*errors): the new error, or the TypeError of
\* add_errors.
NewMultipleValidationError(errors) ==
    AddErrors([t |-> "MVE", errors |-> <<>>], errors)

(* ------------------------------------------------------------------ *)
(* The values given to validate.  A list or a dict is a reference into  *)
(* the memory H of the call: H.cells is the sequence of the mutable     *)
(* containers by address, H.req and H.add are the class attributes      *)
(* Object.REQUIRED_PROPERTIES and Object.ADDITIONAL_PROPERTIES as they   *)
(* are during the call.  A tuple, a str and a number are values.        *)
(* ------------------------------------------------------------------ *)

PyRef(a) == [t |-> "ref", a |-> a]

\* The object a value denotes
Deref(value, H) == IF value.t = "ref" THEN H.cells[value.a] ELSE value

\* A new list or dict
Alloc(H, content) ==
    [H |-> [H EXCEPT !.cells = Append(@, content)], v |-> PyRef(Len(H.cells) + 1)]

\* result[name] = adapted
SetItem(H, result, name, adapted) ==
    [H EXCEPT !.cells[result.a].d = [k \in DOMAIN @ \cup {name} |->
                                        IF k = name THEN adapted ELSE @[k]]]

\* A loop that deletes the first name only (mutant of DelItems)
DelFirstItem(H, result, names) ==
    [H EXCEPT !.cells[result.a].d = [k \in DOMAIN @ \ {names[1]} |-> @[k]]]

\* for name in names: del result[name]
DelItems(H, result, names) ==
    [H EXCEPT !.cells[result.a].d =
                 [k \in DOMAIN @ \ {names[i] : i \in 1..Len(names)} |-> @[k]]]

\* The items of a list or a tuple
Items(seq) == IF seq.t = "list" THEN seq.l ELSE seq.u

\* The number a bool or an int stands for
Num(x) == IF x.t = "bool" THEN (IF x.b THEN 1 ELSE 0) ELSE x.i

\* value < bound and value > bound for an int bound, as Python 2 orders
\* values of different types: None is below every number and every other
\* object is above every number.
Less(value, bound) ==
    CASE value.t = "none" -> TRUE
      [] value.t \in {"int", "bool"} -> Num(value) < Num(bound)
      [] OTHER -> FALSE

Greater(value, bound) ==
    CASE value.t = "none" -> FALSE
      [] value.t \in {"int", "bool"} -> Num(value) > Num(bound)
      [] OTHER -> TRUE

\* The routines of a caller: is_even is the predicate lambda n: n % 2 == 0
\* of the tests, int the builtin (of a str it reads the digits); zero is a
\* callable default that returns 0.
CallRoutine(f, value, H) ==
    LET x == Deref(value, H)
    IN CASE f = "is_even" ->
               IF x.t \in {"int", "bool"}
               THEN [k |-> "ok", v |-> PyBool(Num(x) % 2 = 0)]
               ELSE [k |-> "raise", v |-> PyExc("TypeError")]
         [] f = "int" ->
               IF x.t \in {"int", "bool"} THEN [k |-> "ok", v |-> PyInt(Num(x))]
               ELSE IF x.t = "str"
               THEN IF x.s = <<"1">> THEN [k |-> "ok", v |-> PyInt(1)]
                    ELSE [k |-> "raise", v |-> PyExc("ValueError")]
               ELSE [k |-> "raise", v |-> PyExc("TypeError")]
         [] f = "zero" -> [k |-> "ok", v |-> PyInt(0)]

\* except traps: traps is the set of the exception classes named, empty for
\* the tuple ().
Catches(traps, exc) == "Exception" \in traps \/ exc.x \in traps

(* ------------------------------------------------------------------ *)
(* validate, full_validate, is_valid.  A call's outcome is the heap     *)
(* after it and the value returned or the exception raised.             *)
(* ------------------------------------------------------------------ *)

VOk(H, v) == [H |-> H, k |-> "ok", v |-> v]
VRaise(H, e) == [H |-> H, k |-> "raise", v |-> e]

\* humanized_name
RECURSIVE HumanizedName(_)
HumanizedName(self) ==
    CASE self.cls = "Nullable" -> HumanizedName(self.validator) \o <<" or null">>
      [] self.cls = "NonNullable" ->
            IF self.validator # PyNone THEN HumanizedName(self.validator)
            ELSE <<"non null">>
      [] self.cls = "Condition" -> <<self.predicate.f>>
      [] self.cls \in {"AnyOf", "AllOf", "ChainOf"} ->
            LET sep == CASE self.cls = "AnyOf" -> " or "
                         [] self.cls = "AllOf" -> " and "
                         [] self.cls = "ChainOf" -> " chained to "
                joined[i \in 0..Len(self.validators)] ==
                    IF i = 0 THEN <<>>
                    ELSE IF i = 1 THEN HumanizedName(self.validators[1])
                    ELSE joined[i - 1] \o <<sep>> \o HumanizedName(self.validators[i])
            IN joined[Len(self.validators)]
      [] OTHER -> IF "name" \in DOMAIN self /\ self.name # PyNone
                  THEN self.name.s ELSE <<self.cls>>

\* self.humanized_name raises: the property of a Nullable reads
\* self._validator.humanized_name, and None has no such attribute.
RECURSIVE HumanizedNameRaises(_)
HumanizedNameRaises(self) ==
    CASE self.cls = "Nullable" ->
            self.validator = PyNone \/ HumanizedNameRaises(self.validator)
      [] self.cls = "NonNullable" ->
            self.validator # PyNone /\ HumanizedNameRaises(self.validator)
      [] self.cls \in {"AnyOf", "AllOf", "ChainOf"} ->
            \E i \in 1..Len(self.validators) : HumanizedNameRaises(self.validators[i])
      [] OTHER -> FALSE

\* Validator.error(value): the exception it raises
Error(self, value) ==
    IF HumanizedNameRaises(self) THEN PyExc("AttributeError")
    ELSE ValidationError(<<"must be ">> \o HumanizedName(self), value)

\* Condition.error(value)
ConditionError(self, value) ==
    ValidationError(<<"must satisfy predicate ">> \o HumanizedName(self), value)

\* A text that names the first key only (mutant of KeysText)
KeysTextFirst(keys) == IF keys = <<>> THEN <<>> ELSE Head(keys).s

\* The names of a list of keys, as a message shows them
RECURSIVE KeysText(_)
KeysText(keys) == IF keys = <<>> THEN <<>> ELSE Head(keys).s \o KeysText(Tail(keys))

\* Type.validate: the isinstance tests
TypeAccepts(self, value, H) ==
    /\ IsInstance(Deref(value, H), self.accept)
    /\ ~IsInstance(Deref(value, H), self.reject)

\* A default that is never called (mutant of Default)
DefaultLiteral(self, H) == self.default

\* Nullable.default: a callable default is called.
Default(self, H) ==
    IF self.default.t = "func" THEN CallRoutine(self.default.f, PyNone, H).v
    ELSE self.default

\* A result that is the input itself (mutant of DictCopy)
DictAlias(value, H) == [H |-> H, v |-> value]

\* result = dict(value): a new dict with the items of value
DictCopy(value, H) == Alloc(H, Deref(value, H))

\* An Object.validate that reads the ambient default (mutant of Additional)
AdditionalAmbient(self, H) == H.add

\* self._additional as Object.validate reads it
Additional(self, H) == self.additional

RECURSIVE Validate(_, _, _, _)
RECURSIVE ValidateItems(_, _, _, _, _, _)
RECURSIVE ValidateNamed(_, _, _, _, _)
RECURSIVE ValidateExtra(_, _, _, _, _, _)

\* _iter_validated_items of the sequences: the i-th item goes to the i-th
\* validator; a ValidationError gets the index as context.
ValidateItems(validators, items, i, adapt, H, acc) ==
    IF i > Len(items) \/ i > Len(validators) THEN VOk(H, acc)
    ELSE LET r == Validate(validators[i], items[i], adapt, H)
         IN IF r.k = "raise"
            THEN IF r.v.t = "VE" THEN VRaise(r.H, AddContext(r.v, PyInt(i - 1))) ELSE r
            ELSE ValidateItems(validators, items, i + 1, adapt, r.H, Append(acc, r.v))

\* The loop of Object.validate over self._named_validators
ValidateNamed(named, value, result, adapt, H) ==
    IF named = <<>> THEN VOk(H, result)
    ELSE LET name == Head(named).name
             validator == Head(named).validator
             m == Deref(value, H)
         IN IF name \in DOMAIN m.d
            THEN LET r == Validate(validator, m.d[name], adapt, H)
                 IN IF r.k = "raise"
                    THEN IF r.v.t = "VE" THEN VRaise(r.H, AddContext(r.v, name)) ELSE r
                    ELSE ValidateNamed(Tail(named), value, result, adapt,
                                       IF result # PyNone
                                       THEN SetItem(r.H, result, name, r.v) ELSE r.H)
            ELSE IF validator.cls = "Nullable"
            THEN LET adapted == Default(validator, H)
                 IN ValidateNamed(Tail(named), value, result, adapt,
                                  IF adapted # PyNone /\ result # PyNone
                                  THEN SetItem(H, result, name, adapted) ELSE H)
            ELSE ValidateNamed(Tail(named), value, result, adapt, H)

\* The loop of Object.validate over the additional properties when
\* self._additional is a validator
ValidateExtra(additional, names, value, result, adapt, H) ==
    IF names = <<>> THEN VOk(H, result)
    ELSE LET name == Head(names)
             r == Validate(additional, Deref(value, H).d[name], adapt, H)
         IN IF r.k = "raise"
            THEN IF r.v.t = "VE" THEN VRaise(r.H, AddContext(r.v, name)) ELSE r
            ELSE ValidateExtra(additional, Tail(names), value, result, adapt,
                               IF result # PyNone
                               THEN SetItem(r.H, result, name, r.v) ELSE r.H)

\* A Type that returns the successor of an int (mutant of ValidateType)
ValidateTypeSuccessor(self, value, adapt, H) ==
    IF ~TypeAccepts(self, value, H) THEN VRaise(H, Error(self, value))
    ELSE IF value.t = "int" THEN VOk(H, PyInt(value.i + 1))
    ELSE VOk(H, value)

\* Type.validate
ValidateType(self, value, adapt, H) ==
    IF ~TypeAccepts(self, value, H) THEN VRaise(H, Error(self, value))
    ELSE VOk(H, value)

\* String.validate; the pieces of a str given to validate are its characters.
ValidateString(self, value, adapt, H) ==
    IF ~TypeAccepts(self, value, H) THEN VRaise(H, Error(self, value))
    ELSE IF self.min_length # PyNone /\ Len(value.s) < self.min_length.i
    THEN VRaise(H, ValidationError(<<"must be at least characters long">>, value))
    ELSE IF self.max_length # PyNone /\ Len(value.s) > self.max_length.i
    THEN VRaise(H, ValidationError(<<"must be at most characters long">>, value))
    ELSE VOk(H, value)

\* An AnyOf that returns what its last accepting validator returns (mutant
\* of ValidateAnyOf)
ValidateAnyOfLast(self, value, adapt, H) ==
    LET accepting == {i \in 1..Len(self.validators) :
                         Validate(self.validators[i], value, adapt, H).k = "ok"}
        msgs[i \in 0..Len(self.validators)] ==
            IF i = 0 THEN <<>>
            ELSE (IF i = 1 THEN <<>> ELSE msgs[i - 1] \o <<" or ">>)
                 \o Validate(self.validators[i], value, adapt, H).v.msg
    IN IF accepting = {}
       THEN IF \A i \in 1..Len(self.validators) :
                  Validate(self.validators[i], value, adapt, H).v.t = "VE"
            THEN VRaise(H, ValidationError(msgs[Len(self.validators)], value))
            ELSE VRaise(H, PyExc("TypeError"))
       ELSE Validate(self.validators[CHOOSE i \in accepting : \A j \in accepting : j <= i],
                     value, adapt, H)

\* AnyOf.validate: tried[i] is the loop after its first i validators: the
\* outcome r of the validator that returned or raised something other than a
\* ValidationError (done), or else the messages so far, joined by " or ".
ValidateAnyOf(self, value, adapt, H) ==
    LET tried[i \in 0..Len(self.validators)] ==
            IF i = 0 THEN [done |-> FALSE, r |-> VOk(H, PyNone), msgs |-> <<>>]
            ELSE LET Caught(p, r) ==
                         IF r.k = "raise" /\ r.v.t = "VE"
                         THEN [done |-> FALSE, r |-> VOk(r.H, PyNone),
                               msgs |-> IF i = 1 THEN r.v.msg
                                        ELSE p.msgs \o <<" or ">> \o r.v.msg]
                         ELSE [done |-> TRUE, r |-> r, msgs |-> p.msgs]
                     Step(p) ==
                         IF p.done THEN p
                         ELSE Caught(p, Validate(self.validators[i], value, adapt, p.r.H))
                 IN Step(tried[i - 1])
        Last(p) ==
            IF p.done THEN p.r
            ELSE VRaise(p.r.H, ValidationError(p.msgs, value))
    IN Last(tried[Len(self.validators)])

\* An AllOf that gives every validator what the one before it returned
\* (mutant of ValidateAllOf)
ValidateAllOfChained(self, value, adapt, H) ==
    LET chained[i \in 0..Len(self.validators)] ==
            IF i = 0 THEN VOk(H, value)
            ELSE LET Step(r) ==
                         IF r.k = "raise" THEN r
                         ELSE Validate(self.validators[i], r.v, adapt, r.H)
                 IN Step(chained[i - 1])
    IN chained[Len(self.validators)]

\* AllOf.validate: every validator is given value; result is what the last
\* one returned.
ValidateAllOf(self, value, adapt, H) ==
    LET result[i \in 0..Len(self.validators)] ==
            IF i = 0 THEN VOk(H, value)
            ELSE LET Step(r) ==
                         IF r.k = "raise" THEN r
                         ELSE Validate(self.validators[i], value, adapt, r.H)
                 IN Step(result[i - 1])
    IN result[Len(self.validators)]

\* A ChainOf that gives every validator the value it was given itself
\* (mutant of ValidateChainOf)
ValidateChainOfOriginal(self, value, adapt, H) ==
    LET result[i \in 0..Len(self.validators)] ==
            IF i = 0 THEN VOk(H, value)
            ELSE LET Step(r) ==
                         IF r.k = "raise" THEN r
                         ELSE Validate(self.validators[i], value, adapt, r.H)
                 IN Step(result[i - 1])
    IN result[Len(self.validators)]

\* ChainOf.validate: every validator is given what the one before it
\* returned.
ValidateChainOf(self, value, adapt, H) ==
    LET chained[i \in 0..Len(self.validators)] ==
            IF i = 0 THEN VOk(H, value)
            ELSE LET Step(r) ==
                         IF r.k = "raise" THEN r
                         ELSE Validate(self.validators[i], r.v, adapt, r.H)
                 IN Step(chained[i - 1])
    IN chained[Len(self.validators)]

\* A Nullable that has its validator validate None before it returns the
\* default (mutant of ValidateNullable)
ValidateNullableConsults(self, value, adapt, H) ==
    IF self.validator = PyNone THEN VRaise(H, PyExc("AttributeError"))
    ELSE LET Decide(r) ==
                 IF r.k = "raise" THEN r
                 ELSE IF value = PyNone THEN VOk(r.H, Default(self, r.H))
                 ELSE r
         IN Decide(Validate(self.validator, value, adapt, H))

\* Nullable.validate
ValidateNullable(self, value, adapt, H) ==
    IF value = PyNone THEN VOk(H, Default(self, H))
    ELSE IF self.validator = PyNone THEN VRaise(H, PyExc("AttributeError"))
    ELSE Validate(self.validator, value, adapt, H)

\* NonNullable.validate
ValidateNonNullable(self, value, adapt, H) ==
    IF value = PyNone THEN VRaise(H, Error(self, value))
    ELSE IF self.validator # PyNone THEN Validate(self.validator, value, adapt, H)
    ELSE VOk(H, value)

\* Condition.validate: an exception of the predicate that self._traps does
\* not name, or any exception when self._traps is empty, propagates.
ValidateCondition(self, value, adapt, H) ==
    LET c == CallRoutine(self.predicate.f, value, H)
    IN IF c.k = "raise" /\ ~(self.traps # {} /\ Catches(self.traps, c.v))
       THEN VRaise(H, c.v)
       ELSE LET is_valid == IF c.k = "raise" THEN FALSE ELSE Truthy(c.v)
            IN IF ~is_valid THEN VRaise(H, ConditionError(self, value))
               ELSE VOk(H, value)

\* AdaptBy.validate
ValidateAdaptBy(self, value, adapt, H) ==
    LET c == CallRoutine(self.adaptor.f, value, H)
    IN IF c.k = "ok" THEN VOk(H, c.v)
       ELSE IF self.traps # {} /\ Catches(self.traps, c.v)
       THEN VRaise(H, ValidationError(<<c.v.x>>, value))
       ELSE VRaise(H, c.v)

\* Range.validate
ValidateRange(self, value, adapt, H) ==
    LET r == IF self.validator # PyNone THEN Validate(self.validator, value, adapt, H)
             ELSE VOk(H, value)
    IN IF r.k = "raise" THEN r
       ELSE IF self.min_value # PyNone /\ Less(Deref(r.v, r.H), self.min_value)
       THEN VRaise(r.H, ValidationError(<<"must not be less than">>, r.v))
       ELSE IF self.max_value # PyNone /\ Greater(Deref(r.v, r.H), self.max_value)
       THEN VRaise(r.H, ValidationError(<<"must not be larger than">>, r.v))
       ELSE r

\* value.__class__(items) for a list or a tuple value
Rebuild(value, items, H) ==
    IF Deref(value, H).t = "list" THEN Alloc(H, PyList(items))
    ELSE [H |-> H, v |-> PyTuple(items)]

\* HomogeneousSequence.validate
ValidateHomogeneousSequence(self, value, adapt, H) ==
    IF ~TypeAccepts(self, value, H) THEN VRaise(H, Error(self, value))
    ELSE LET items == Items(Deref(value, H))
         IN IF self.min_length # PyNone /\ Len(items) < self.min_length.i
            THEN VRaise(H, ValidationError(<<"must contain at least elements">>, value))
            ELSE IF self.max_length # PyNone /\ Len(items) > self.max_length.i
            THEN VRaise(H, ValidationError(<<"must contain at most elements">>, value))
            ELSE IF self.item_validator = PyNone THEN VOk(H, value)
            ELSE LET r == ValidateItems([i \in 1..Len(items) |-> self.item_validator],
                                        items, 1, adapt, H, <<>>)
                 IN IF r.k = "raise" THEN r
                    ELSE IF adapt
                    THEN LET a == Rebuild(value, r.v, r.H) IN VOk(a.H, a.v)
                    ELSE VOk(r.H, PyNone)

\* HeterogeneousSequence.validate
ValidateHeterogeneousSequence(self, value, adapt, H) ==
    IF ~TypeAccepts(self, value, H) THEN VRaise(H, Error(self, value))
    ELSE LET items == Items(Deref(value, H))
         IN IF Len(items) # Len(self.item_validators)
            THEN VRaise(H, ValidationError(<<"items expected, found">>, value))
            ELSE LET r == ValidateItems(self.item_validators, items, 1, adapt, H, <<>>)
                 IN IF r.k = "raise" THEN r
                    ELSE IF adapt
                    THEN LET a == Rebuild(value, r.v, r.H) IN VOk(a.H, a.v)
                    ELSE VOk(r.H, PyNone)

\* An Object.validate that applies the policy False before it validates the
\* declared properties (mutant of ValidateObject)
ValidateObjectPolicyFirst(self, value, adapt, H) ==
    IF ~TypeAccepts(self, value, H) THEN VRaise(H, Error(self, value))
    ELSE LET missing_required == self.required_keys \ DOMAIN Deref(value, H).d
             additional_properties ==
                 SelectSeq(IterOrder(DOMAIN Deref(value, H).d),
                           LAMBDA k : k \notin self.all_keys)
             Rest(a) ==
                 LET Policy(r) ==
                         IF r.k = "raise" THEN r
                         ELSE IF Additional(self, r.H) = PyBool(TRUE)
                                 \/ additional_properties = <<>>
                         THEN VOk(r.H, a.v)
                         ELSE IF Additional(self, r.H) = REMOVE
                         THEN VOk(IF a.v # PyNone
                                  THEN DelItems(r.H, a.v, additional_properties)
                                  ELSE r.H, a.v)
                         ELSE ValidateExtra(Additional(self, r.H), additional_properties,
                                            value, a.v, adapt, r.H)
                 IN Policy(ValidateNamed(self.named_validators, value, a.v, adapt, a.H))
         IN IF missing_required # {}
            THEN VRaise(H, ValidationError(<<"missing required properties: ">>
                                           \o KeysText(IterOrder(missing_required)), value))
            ELSE IF Additional(self, H) = PyBool(FALSE) /\ additional_properties # <<>>
            THEN VRaise(H, ValidationError(<<"additional properties: ">>
                                           \o KeysText(additional_properties), value))
            ELSE Rest(IF adapt THEN DictCopy(value, H) ELSE [H |-> H, v |-> PyNone])

\* Object.validate
ValidateObject(self, value, adapt, H) ==
    IF ~TypeAccepts(self, value, H) THEN VRaise(H, Error(self, value))
    ELSE LET missing_required == self.required_keys \ DOMAIN Deref(value, H).d
         IN IF missing_required # {}
            THEN VRaise(H, ValidationError(<<"missing required properties: ">>
                                           \o KeysText(IterOrder(missing_required)), value))
            ELSE LET a == IF adapt THEN DictCopy(value, H) ELSE [H |-> H, v |-> PyNone]
                     result == a.v
                     r == ValidateNamed(self.named_validators, value, result, adapt, a.H)
                 IN IF r.k = "raise" THEN r
                    ELSE IF Additional(self, r.H) # PyBool(TRUE)
                    THEN LET all_keys == self.all_keys
                             additional_properties ==
                                 SelectSeq(IterOrder(DOMAIN Deref(value, r.H).d),
                                           LAMBDA k : k \notin all_keys)
                         IN IF additional_properties # <<>>
                            THEN IF Additional(self, r.H) = PyBool(FALSE)
                                 THEN VRaise(r.H, ValidationError(
                                          <<"additional properties: ">>
                                          \o KeysText(additional_properties), value))
                                 ELSE IF Additional(self, r.H) = REMOVE
                                 THEN VOk(IF result # PyNone
                                          THEN DelItems(r.H, result, additional_properties)
                                          ELSE r.H, result)
                                 ELSE ValidateExtra(Additional(self, r.H), additional_properties,
                                                    value, result, adapt, r.H)
                            ELSE VOk(r.H, result)
                    ELSE VOk(r.H, result)

\* validator.validate(value, adapt), by the class of the validator; the
\* validate of Validator itself raises NotImplementedError.
Validate(self, value, adapt, H) ==
    CASE self.cls = "Validator" -> VRaise(H, PyExc("NotImplementedError"))
      [] self.cls \in {"Type", "Boolean", "Integer", "Number", "MyInteger", "SubInteger"} ->
            ValidateType(self, value, adapt, H)
      [] self.cls = "String" -> ValidateString(self, value, adapt, H)
      [] self.cls = "AnyOf" -> ValidateAnyOf(self, value, adapt, H)
      [] self.cls = "AllOf" -> ValidateAllOf(self, value, adapt, H)
      [] self.cls = "ChainOf" -> ValidateChainOf(self, value, adapt, H)
      [] self.cls = "Nullable" -> ValidateNullable(self, value, adapt, H)
      [] self.cls = "NonNullable" -> ValidateNonNullable(self, value, adapt, H)
      [] self.cls = "Condition" -> ValidateCondition(self, value, adapt, H)
      [] self.cls = "AdaptBy" -> ValidateAdaptBy(self, value, adapt, H)
      [] self.cls = "Range" -> ValidateRange(self, value, adapt, H)
      [] self.cls = "HomogeneousSequence" ->
            ValidateHomogeneousSequence(self, value, adapt, H)
      [] self.cls = "HeterogeneousSequence" ->
            ValidateHeterogeneousSequence(self, value, adapt, H)
      [] self.cls = "Object" -> ValidateObject(self, value, adapt, H)

\* Validator.full_validate, the default implementation: the class is called
\* with one positional argument, the list [ex].
FullValidate(self, value, adapt, H) ==
    LET r == Validate(self, value, adapt, H)
    IN IF r.k = "raise" /\ r.v.t = "VE"
       THEN VRaise(r.H, NewMultipleValidationError(<<PyList(<<r.v>>)>>).v)
       ELSE r

\* An is_valid that turns every exception into False (mutant of IsValid)
IsValidCatchesAll(self, value, H) ==
    LET r == Validate(self, value, FALSE, H)
    IN IF r.k = "ok" THEN VOk(r.H, PyBool(TRUE)) ELSE VOk(r.H, PyBool(FALSE))

\* Validator.is_valid
IsValid(self, value, H) ==
    LET r == Validate(self, value, FALSE, H)
    IN IF r.k = "ok" THEN VOk(r.H, PyBool(TRUE))
       ELSE IF r.v.t = "VE" THEN VOk(r.H, PyBool(FALSE))
       ELSE r

(* ------------------------------------------------------------------ *)
(* Validation: a caller builds validators and validates its values      *)
(* (specification SpecValidate)                                         *)
(* ------------------------------------------------------------------ *)

\* A str key of a dict descriptor: a name, with its prefix if it has one
Key(prefix, name) == PyStr(IF prefix = "" THEN <<name>> ELSE <<prefix, name>>)

\* A dict with the given names as keys and the given values
DictOf(names, values) ==
    PyDict([k \in {Name(names[i]) : i \in 1..Len(names)} |->
               values[CHOOSE i \in 1..Len(names) : Name(names[i]) = k]])

\* A dict descriptor with the given keys and schemas
Schema(keys, schemas) ==
    PyDict([k \in {keys[i] : i \in 1..Len(keys)} |->
               schemas[CHOOSE i \in 1..Len(keys) : keys[i] = k]])

\* The lists and dicts of the caller: {"a": 1, "z": 2}, {"b": <the first>},
\* [2, "1"]
InputHeap ==
    << DictOf(<<"a", "z">>, <<PyInt(1), PyInt(2)>>),
       DictOf(<<"b">>, <<PyRef(1)>>),
       PyList(<<PyInt(2), PyStr(<<"1">>)>>) >>

\* The values the caller validates
Inputs == {PyNone, PyStr(<<"1">>), PyRef(1), PyRef(2), PyRef(3)}

\* The descriptors the caller has parse compile
ValidateDescriptors ==
    {DictOf(<<"b">>, <<Schema(<<Name("a"), Key("+", "c")>>,
                               <<Name("integer"), Name("integer")>>)>>),
     PyList(<<Name("integer")>>),
     PyClass("Validator")}

\* The validators the caller constructs itself
Constructions ==
    {[cls |-> "Condition", predicate |-> PyFunc("is_even"), traps |-> {}],
     [cls |-> "AdaptBy", adaptor |-> PyFunc("int"), traps |-> {"ValueError"}],
     [cls |-> "Object",
      optional |-> DictOf(<<"a", "d">>, <<Name("integer"), PyStr(<<"?", "integer">>)>>),
      required |-> EmptyDict, additional |-> REMOVE]}

\* cls(...) with the arguments of the construction c
Construct(c, W) ==
    CASE c.cls = "Condition" -> NewCondition(c.predicate, c.traps, W)
      [] c.cls = "AdaptBy" -> NewAdaptBy(c.adaptor, c.traps, W)
      [] c.cls = "Object" -> NewObject(c.optional, c.required, c.additional, W)
      [] c.cls \in {"AnyOf", "AllOf", "ChainOf"} -> NewComposite(c.cls, c.schemas, W)
      [] c.cls = "Nullable" -> NewNullable(c.schema, c.default, W)
      [] c.cls = "NonNullable" -> NewNonNullable(c.schema, W)
      [] c.cls = "Range" -> NewRange(c.schema, c.min_value, c.max_value, W)

DoConstruct(c) ==
    /\ nextOid < MaxOid
    /\ LET Return(r) ==
               /\ Commit(r.W)
               /\ Keep(r)
               /\ ret' = Call("construct", Name(c.cls), PyNone, r)
       IN Return(Construct(c, World))
    /\ UNCHANGED <<registered, frames, heap, pc, lock>>

\* What the caller sees of an outcome: the lists and dicts the call made are
\* shown by their contents, those that were there before (the first n of
\* the heap) by their address.
RECURSIVE Snapshot(_, _, _)
Snapshot(v, H, n) ==
    CASE v.t = "ref" -> IF v.a <= n THEN v ELSE Snapshot(H.cells[v.a], H, n)
      [] v.t = "list" -> PyList([i \in 1..Len(v.l) |-> Snapshot(v.l[i], H, n)])
      [] v.t = "tuple" -> PyTuple([i \in 1..Len(v.u) |-> Snapshot(v.u[i], H, n)])
      [] v.t = "dict" -> PyDict([k \in DOMAIN v.d |-> Snapshot(v.d[k], H, n)])
      [] v.t = "VE" -> [v EXCEPT !.value = Snapshot(@, H, n)]
      [] v.t = "MVE" ->
            [v EXCEPT !.errors = [i \in 1..Len(@) |-> Snapshot(@[i], H, n)]]
      [] OTHER -> v

\* The outcome of a call as the caller sees it
Seen(r, n) == [k |-> r.k, v |-> Snapshot(r.v, r.H, n)]

\* The memory of a call made on the cells given, under the ambient defaults
\* of the moment
MemoryOf(cells) ==
    [cells |-> cells, req |-> REQUIRED_PROPERTIES, add |-> ADDITIONAL_PROPERTIES]

Memory == MemoryOf(heap)

\* The record of a call of validate, full_validate or is_valid
VCall(op, self, value, adapt, r) ==
    [op |-> op, obj |-> self, arg |-> value, adapt |-> adapt,
     k |-> r.k, v |-> Snapshot(r.v, r.H, Len(heap)), log |-> <<>>, entry0 |-> PyNone]

\* The caller drops the result: the heap keeps the lists and dicts that
\* were there before the call, as the call left them.
Returned(r) == heap' = SubSeq(r.H.cells, 1, Len(heap))

DoValidate(self, value, adapt) ==
    /\ LET r == Validate(self, value, adapt, Memory)
       IN /\ Returned(r)
          /\ ret' = VCall("validate", self, value, adapt, r)
    /\ UNCHANGED <<NAMED_VALIDATORS, VALIDATOR_FACTORIES, REQUIRED_PROPERTIES,
                   ADDITIONAL_PROPERTIES, nextOid, held, registered, frames, pc, lock>>

DoFullValidate(self, value, adapt) ==
    /\ LET r == FullValidate(self, value, adapt, Memory)
       IN /\ Returned(r)
          /\ ret' = VCall("full_validate", self, value, adapt, r)
    /\ UNCHANGED <<NAMED_VALIDATORS, VALIDATOR_FACTORIES, REQUIRED_PROPERTIES,
                   ADDITIONAL_PROPERTIES, nextOid, held, registered, frames, pc, lock>>

DoIsValid(self, value) ==
    /\ LET r == IsValid(self, value, Memory)
       IN /\ Returned(r)
          /\ ret' = VCall("is_valid", self, value, FALSE, r)
    /\ UNCHANGED <<NAMED_VALIDATORS, VALIDATOR_FACTORIES, REQUIRED_PROPERTIES,
                   ADDITIONAL_PROPERTIES, nextOid, held, registered, frames, pc, lock>>

InitValidate ==
    /\ Imported
    /\ heap = InputHeap

NextValidate ==
    \/ \E obj \in ValidateDescriptors : DoParse(obj)
    \/ \E c \in Constructions : DoConstruct(c)
    \/ \E self \in held, value \in Inputs, adapt \in BOOLEAN : DoValidate(self, value, adapt)
    \/ \E self \in held, value \in Inputs, adapt \in BOOLEAN :
          DoFullValidate(self, value, adapt)
    \/ \E self \in held, value \in Inputs : DoIsValid(self, value)

SpecValidate == InitValidate /\ [][NextValidate]_vars

(* ------------------------------------------------------------------ *)
(* Claims about validation (specification SpecValidate)                 *)
(* ------------------------------------------------------------------ *)

ValidateOps == {"validate", "full_validate", "is_valid"}

\* The outcome of a call made alone on the values of the caller as they were
\* at the start
Alone(op, self, value, adapt) ==
    Seen(CASE op = "validate" -> Validate(self, value, adapt, MemoryOf(InputHeap))
           [] op = "full_validate" -> FullValidate(self, value, adapt, MemoryOf(InputHeap))
           [] op = "is_valid" -> IsValid(self, value, MemoryOf(InputHeap)),
         Len(InputHeap))

\* C8: validate, full_validate and is_valid are read-only: a call, whether it
\* returns or raises, leaves the value it was given (nested lists and dicts
\* included), the validators, the registry, the factory chain and the
\* ambient defaults as they were; so every call in any order of calls has
\* the outcome it has alone.
C8_ReadOnly ==
    [][ret'.op \in ValidateOps =>
          /\ heap' = heap
          /\ heap' = InputHeap
          /\ held' = held
          /\ NAMED_VALIDATORS' = NAMED_VALIDATORS
          /\ VALIDATOR_FACTORIES' = VALIDATOR_FACTORIES
          /\ REQUIRED_PROPERTIES' = REQUIRED_PROPERTIES
          /\ ADDITIONAL_PROPERTIES' = ADDITIONAL_PROPERTIES
          /\ [k |-> ret'.k, v |-> ret'.v] = Alone(ret'.op, ret'.obj, ret'.arg, ret'.adapt)
      ]_vars

\* C8 witness: an adapting validate of an Object validator that removes the
\* additional properties returned a dict without the key "z" of its input,
\* and the input has the key as before.
C8_Witness ==
    /\ ret.op = "validate"
    /\ ret.adapt
    /\ ret.k = "ok"
    /\ ret.obj.cls = "Object"
    /\ ret.obj.additional = REMOVE
    /\ ret.arg = PyRef(1)
    /\ Name("z") \notin DOMAIN ret.v.d
    /\ Name("z") \in DOMAIN heap[1].d

\* C9 as stated: is_valid never raises, it returns true or false.
C9_Original ==
    ret.op = "is_valid" => ret.k = "ok" /\ ret.v \in {PyBool(TRUE), PyBool(FALSE)}

\* C9, amended: is_valid(value) returns true when validate(value,
\* adapt=False) returns and false when it raises a ValidationError; any other
\* exception of validate (of a predicate or an adaptor that the trap list
\* does not name, NotImplementedError of Validator itself) leaves is_valid
\* as it is.
C9_IsValid ==
    ret.op = "is_valid" =>
        LET r == Validate(ret.obj, ret.arg, FALSE, Memory)
        IN /\ r.k = "ok" => ret.k = "ok" /\ ret.v = PyBool(TRUE)
           /\ (r.k = "raise" /\ r.v.t = "VE") => ret.k = "ok" /\ ret.v = PyBool(FALSE)
           /\ (r.k = "raise" /\ r.v.t # "VE") => ret.k = "raise" /\ ret.v = r.v

\* C9 witness: is_valid of a Condition with an empty trap list raised the
\* TypeError of its predicate.
C9_Witness ==
    /\ ret.op = "is_valid"
    /\ ret.obj.cls = "Condition"
    /\ ret.obj.traps = {}
    /\ ret.k = "raise"
    /\ ret.v = PyExc("TypeError")

\* C10 as stated: the default full_validate raises a MultipleValidationError
\* whose errors are exactly [e] when validate raises the ValidationError e,
\* returns what validate returns, and fails in no other way for an invalid
\* value.
C10_FullValidate ==
    ret.op = "full_validate" =>
        LET r == Seen(Validate(ret.obj, ret.arg, ret.adapt, Memory), Len(heap))
        IN /\ (r.k = "raise" /\ r.v.t = "VE") =>
                 ret.k = "raise" /\ ret.v = [t |-> "MVE", errors |-> <<r.v>>]
           /\ r.k = "ok" => ret.k = "ok" /\ ret.v = r.v

(* ------------------------------------------------------------------ *)
(* The parsing context (specification SpecContext)                      *)
(* ------------------------------------------------------------------ *)

\* parsing(required_properties, additional_properties) up to the yield: the
\* ambient defaults that are overridden and the locals of the generator.
\* old_required_properties and old_additional_properties are bound only when
\* their argument is not None.
ParsingEnter(required_properties, additional_properties, W) ==
    [W |-> [W EXCEPT !.req = IF required_properties # PyNone
                             THEN required_properties ELSE @,
                     !.add = IF additional_properties # PyNone
                             THEN additional_properties ELSE @],
     frame |-> [required_properties |-> required_properties,
                additional_properties |-> additional_properties,
                old_required_properties |->
                    IF required_properties # PyNone THEN W.req ELSE PyNone,
                old_additional_properties |->
                    IF additional_properties # PyNone THEN W.add ELSE PyNone]]

\* A parsing whose restore is skipped when the body raises (mutant of
\* ParsingExit)
ParsingExitNoFinally(frame, raised, W) ==
    IF raised THEN W
    ELSE [W EXCEPT !.req = IF frame.required_properties # PyNone
                           THEN frame.old_required_properties ELSE @,
                   !.add = IF frame.additional_properties # PyNone
                           THEN frame.old_additional_properties ELSE @]

\* The finally clause of parsing: it runs whether the body returned or
\* raised.
ParsingExit(frame, raised, W) ==
    [W EXCEPT !.req = IF frame.required_properties # PyNone
                      THEN frame.old_required_properties ELSE @,
              !.add = IF frame.additional_properties # PyNone
                      THEN frame.old_additional_properties ELSE @]

\* A parse that drops its overrides (mutant of ParseOverrides)
ParseDropsOverrides(obj, required_properties, additional_properties, W) ==
    Parse(obj, W)

\* parse(obj, required_properties, additional_properties)
ParseOverrides(obj, required_properties, additional_properties, W) ==
    IF ~(required_properties = PyNone /\ additional_properties = PyNone)
    THEN LET Leave(e, r) == [r EXCEPT !.W = ParsingExit(e.frame, r.k = "raise", r.W)]
             Body(e) == Leave(e, Parse(obj, e.W))
         IN Body(ParsingEnter(required_properties, additional_properties, W))
    ELSE Parse(obj, W)

\* The values a caller gives Object.REQUIRED_PROPERTIES
RequiredValues == {PyBool(TRUE), PyBool(FALSE)}

\* The overrides a caller gives parsing and parse: required_properties and
\* additional_properties, None for the one it leaves alone
Overrides ==
    {<<PyBool(TRUE), PyNone>>, <<PyNone, PyBool(FALSE)>>}

\* The dict descriptor {"y": "integer", "+q": "integer"}
Plain == Schema(<<Name("y"), Key("+", "q")>>, <<Name("integer"), Name("integer")>>)

\* The descriptors the caller compiles besides the dict alone: the dict
\* inside a dict inside a tuple inside a list, and a name that no validator
\* has
ContextDescriptors ==
    {PyList(<<PyTuple(<<DictOf(<<"x">>, <<Plain>>)>>)>>), Name("foo")}

\* The record of a call of the compiler made under the parsing context: its
\* arguments, the ambient defaults and the next identity before it, and its
\* outcome
ContextCall(op, obj, required_properties, additional_properties, r) ==
    [op |-> op, obj |-> obj, arg |-> PyNone,
     required_properties |-> required_properties,
     additional_properties |-> additional_properties,
     req0 |-> REQUIRED_PROPERTIES, add0 |-> ADDITIONAL_PROPERTIES, oid0 |-> nextOid,
     k |-> r.k, v |-> r.v, log |-> <<>>, entry0 |-> PyNone]

\* The lock as one thread that has the parsing blocks of frames open holds it
Depth(n) == IF n = 0 THEN Unlocked ELSE [owner |-> 1, count |-> n]

\* with parsing(required_properties, additional_properties): up to the body
EnterParsing(required_properties, additional_properties) ==
    /\ Len(frames) < MaxDepth
    /\ LET e == ParsingEnter(required_properties, additional_properties, World)
       IN /\ Commit(e.W)
          /\ frames' = Append(frames, e.frame @@
                                      [entry_required |-> REQUIRED_PROPERTIES,
                                       entry_additional |-> ADDITIONAL_PROPERTIES])
          /\ ret' = ContextCall("enter", PyNone, required_properties,
                                additional_properties, Ok(e.W, PyNone))
    /\ lock' = Depth(Len(frames'))
    /\ UNCHANGED <<held, registered, heap, pc>>

\* The end of the innermost parsing block, its body having returned or raised
ExitParsing(raised) ==
    /\ frames # <<>>
    /\ LET frame == frames[Len(frames)]
           W == ParsingExit(frame, raised, World)
       IN /\ Commit(W)
          /\ ret' = ContextCall("exit", PyNone, frame.required_properties,
                                frame.additional_properties,
                                IF raised THEN Raise(W, "SchemaError") ELSE Ok(W, PyNone))
    /\ frames' = SubSeq(frames, 1, Len(frames) - 1)
    /\ lock' = Depth(Len(frames'))
    /\ UNCHANGED <<held, registered, heap, pc>>

\* parse(obj, required_properties, additional_properties), in a parsing block
\* or in none
DoParseOverrides(obj, required_properties, additional_properties) ==
    /\ nextOid < MaxCtxOid
    /\ LET Return(r) ==
               /\ Commit(r.W)
               /\ Keep(r)
               /\ ret' = ContextCall("parse", obj, required_properties,
                                     additional_properties, r)
       IN Return(ParseOverrides(obj, required_properties, additional_properties, World))
    /\ UNCHANGED <<registered, frames, heap, pc, lock>>

\* Nullable(schema), in a parsing block or in none
DoNullable(schema) ==
    /\ nextOid < MaxCtxOid
    /\ LET Return(r) ==
               /\ Commit(r.W)
               /\ Keep(r)
               /\ ret' = ContextCall("Nullable", schema, PyNone, PyNone, r)
       IN Return(NewNullable(schema, PyNone, World))
    /\ UNCHANGED <<registered, frames, heap, pc, lock>>

\* Object.REQUIRED_PROPERTIES = value, outside every parsing block
SetRequired(value) ==
    /\ frames = <<>>
    /\ REQUIRED_PROPERTIES' = value
    /\ ret' = ContextCall("set", PyNone, value, PyNone, Ok(World, PyNone))
    /\ UNCHANGED <<NAMED_VALIDATORS, VALIDATOR_FACTORIES, ADDITIONAL_PROPERTIES,
                   nextOid, held, registered, frames, heap, pc, lock>>

\* The dicts the caller validates: {"q": 1}, which lacks "y", and
\* {"y": 1, "q": 1, "z": 1}, which has the additional "z"
ContextHeap ==
    << DictOf(<<"q">>, <<PyInt(1)>>),
       DictOf(<<"y", "q", "z">>, <<PyInt(1), PyInt(1), PyInt(1)>>) >>

InitContext ==
    /\ Imported
    /\ heap = ContextHeap

NextContext ==
    \/ \E o \in Overrides : EnterParsing(o[1], o[2])
    \/ \E raised \in BOOLEAN : ExitParsing(raised)
    \/ \E obj \in ContextDescriptors
                  \cup {DictOf(<<"child">>, <<v>>) : v \in {h \in held : h.cls = "Nullable"}},
          o \in Overrides \cup {<<PyNone, PyNone>>} :
          DoParseOverrides(obj, o[1], o[2])
    \/ DoNullable(Plain)
    \/ \E value \in RequiredValues : SetRequired(value)

SpecContext == InitContext /\ [][NextContext]_vars

\* The caller compiles one dict descriptor again and again while the
\* context changes (specification SpecBinding)
NextBinding ==
    \/ \E o \in Overrides : EnterParsing(o[1], o[2])
    \/ \E raised \in BOOLEAN : ExitParsing(raised)
    \/ \E o \in Overrides \cup {<<PyNone, PyNone>>} : DoParseOverrides(Plain, o[1], o[2])
    \/ \E value \in RequiredValues : SetRequired(value)

SpecBinding == InitContext /\ [][NextBinding]_vars

(* ------------------------------------------------------------------ *)
(* Claims about the parsing context (specification SpecContext)         *)
(* ------------------------------------------------------------------ *)

\* The Object validators of a validator tree
RECURSIVE ObjectsOf(_)
ObjectsOf(v) ==
    IF ~IsValidator(v) THEN {}
    ELSE CASE v.cls = "Object" ->
                 {v} \cup ObjectsOf(v.additional)
                     \cup UNION {ObjectsOf(v.named_validators[i].validator) :
                                    i \in 1..Len(v.named_validators)}
           [] v.cls \in {"Nullable", "NonNullable", "Range"} -> ObjectsOf(v.validator)
           [] v.cls = "HomogeneousSequence" -> ObjectsOf(v.item_validator)
           [] v.cls = "HeterogeneousSequence" ->
                 UNION {ObjectsOf(v.item_validators[i]) : i \in 1..Len(v.item_validators)}
           [] OTHER -> {}

\* The Object validators of the validators a descriptor holds
RECURSIVE ObjectsIn(_)
ObjectsIn(obj) ==
    CASE obj.t = "V" -> ObjectsOf(obj)
      [] obj.t = "dict" -> UNION {ObjectsIn(obj.d[k]) : k \in DOMAIN obj.d}
      [] obj.t = "list" -> UNION {ObjectsIn(obj.l[i]) : i \in 1..Len(obj.l)}
      [] obj.t = "tuple" -> UNION {ObjectsIn(obj.u[i]) : i \in 1..Len(obj.u)}
      [] OTHER -> {}

\* The value in force for a default: the override unless it is None
Effective(override, ambient) == IF override # PyNone THEN override ELSE ambient

\* The keys of the descriptors of the model that have no prefix
PlainKeys == {Name("y"), Name("x"), Name("child")}

\* C4: the parsing context is scoped and nests: when a parsing block ends,
\* its body having returned or raised, both ambient defaults have the values
\* they had when the block was entered, and a default whose argument was None
\* is written neither on entry nor on exit; a parse call with overrides
\* leaves both defaults as they were, whether it returns or raises.
C4_Scoped ==
    [][/\ Len(frames') < Len(frames) =>
            LET f == frames[Len(frames)]
            IN /\ REQUIRED_PROPERTIES' = f.entry_required
               /\ ADDITIONAL_PROPERTIES' = f.entry_additional
               /\ f.required_properties = PyNone =>
                     REQUIRED_PROPERTIES' = REQUIRED_PROPERTIES
               /\ f.additional_properties = PyNone =>
                     ADDITIONAL_PROPERTIES' = ADDITIONAL_PROPERTIES
       /\ Len(frames') > Len(frames) =>
            LET f == frames'[Len(frames')]
            IN /\ REQUIRED_PROPERTIES' = Effective(f.required_properties, REQUIRED_PROPERTIES)
               /\ ADDITIONAL_PROPERTIES' =
                     Effective(f.additional_properties, ADDITIONAL_PROPERTIES)
       /\ (ret'.op = "parse" /\ ret' # ret) =>
            /\ REQUIRED_PROPERTIES' = REQUIRED_PROPERTIES
            /\ ADDITIONAL_PROPERTIES' = ADDITIONAL_PROPERTIES
      ]_vars

\* C4 witness: the inner of two nested blocks, which overrode
\* additional_properties, ended with an exception; the default it overrode
\* is restored and the override of the outer block is in force.
C4_Witness ==
    /\ ret.op = "exit"
    /\ ret.k = "raise"
    /\ Len(frames) = 1
    /\ ret.additional_properties = PyBool(FALSE)
    /\ ret.add0 = PyBool(FALSE)
    /\ ADDITIONAL_PROPERTIES = PyBool(TRUE)
    /\ frames[1].required_properties = PyBool(TRUE)
    /\ frames[1].entry_required = PyBool(FALSE)
    /\ REQUIRED_PROPERTIES = PyBool(TRUE)

\* The values the caller validates under the parsing context
ContextInputs == {PyRef(a) : a \in 1..Len(ContextHeap)}

\* The outcome of validate in the memory M, as the caller sees it
Outcome(v, x, adapt, M) == Seen(Validate(v, x, adapt, M), Len(ContextHeap))

\* C5: an Object validator binds its defaults when it is compiled: the
\* outcome of validate of every validator the caller holds, for every input,
\* is the same after any step: a parsing block entered or left, a parse
\* with overrides, an assignment to an ambient default.
C5_BoundAtCompileTime ==
    [][\A v \in held : \A x \in ContextInputs, adapt \in BOOLEAN :
          Outcome(v, x, adapt, Memory') = Outcome(v, x, adapt, Memory)]_vars

\* C5 witness: the caller holds two validators compiled from the same dict
\* descriptor under different contexts; they differ on an input that lacks
\* the key "y", and the ambient default is no longer the one the first was
\* compiled under.
C5_Witness ==
    \E v1, v2 \in held :
        /\ v1.cls = "Object" /\ v2.cls = "Object"
        /\ v1.all_keys = {Name("y"), Name("q")}
        /\ v2.all_keys = v1.all_keys
        /\ Name("y") \in v1.required_keys
        /\ Name("y") \notin v2.required_keys
        /\ v1.oid < v2.oid
        /\ REQUIRED_PROPERTIES = PyBool(FALSE)
        /\ frames = <<>>
        /\ Outcome(v1, PyRef(1), TRUE, Memory).k = "raise"
        /\ Outcome(v2, PyRef(1), TRUE, Memory).k = "ok"

\* C6: a compilation (parse with or without overrides, Nullable(schema))
\* gives every Object validator it constructs the defaults in force for the
\* call, the overrides over the ambient defaults: its additional-property
\* policy, and its keys without prefix are required exactly when the default
\* is true (a "+" key is required always); an Object validator that was
\* constructed before the call is in the result as it was.  In a parsing
\* block the ambient defaults are the overrides of the block, so what is
\* constructed in the block gets them.
C6_Overrides ==
    /\ (ret.op \in {"parse", "Nullable"} /\ ret.k = "ok") =>
          \A o \in ObjectsOf(ret.v) :
             IF o.oid >= ret.oid0
             THEN /\ o.additional = Effective(ret.additional_properties, ret.add0)
                  /\ \A key \in PlainKeys \cap o.all_keys :
                        key \in o.required_keys <=>
                           Truthy(Effective(ret.required_properties, ret.req0))
                  /\ Name("q") \in o.all_keys => Name("q") \in o.required_keys
             ELSE o \in ObjectsIn(ret.obj)
    /\ frames # <<>> =>
          LET f == frames[Len(frames)]
          IN /\ REQUIRED_PROPERTIES = Effective(f.required_properties, f.entry_required)
             /\ ADDITIONAL_PROPERTIES =
                   Effective(f.additional_properties, f.entry_additional)

\* C6 witness: parse with required_properties=True of a dict that holds a
\* Nullable built before under the default False: the new Object validator
\* requires its key, the Object validator inside the Nullable does not
\* require "y".
C6_Witness ==
    /\ ret.op = "parse"
    /\ ret.k = "ok"
    /\ ret.required_properties = PyBool(TRUE)
    /\ ret.req0 = PyBool(FALSE)
    /\ \E o1, o2 \in ObjectsOf(ret.v) :
          /\ o1.oid >= ret.oid0
          /\ Name("child") \in o1.required_keys
          /\ o2.oid < ret.oid0
          /\ Name("y") \in o2.all_keys
          /\ Name("y") \notin o2.required_keys

(* ------------------------------------------------------------------ *)
(* Threads: the calls of the compiler statement by statement, any       *)
(* thread taking the next step (specification SpecThreads).  pc[t].at   *)
(* names the statement thread t runs next; the other fields of pc[t]    *)
(* are the arguments and locals of its call.                            *)
(* ------------------------------------------------------------------ *)

\* The threads stop parsing names once MaxThreadOid - 1 validators exist
MaxThreadOid == 3

\* register(name, validator), line 145: the isinstance test
BeginRegister(t, name, validator) ==
    /\ pc[t] = Idle
    /\ IF ~IsValidator(validator)
       THEN /\ pc' = pc
            /\ ret' = [Call("register", name, validator, Raise(World, "TypeError"))
                       EXCEPT !.entry0 = PyNone]
       ELSE /\ pc' = [pc EXCEPT ![t] = [at |-> "register_write", name |-> name,
                                         validator |-> validator]]
            /\ ret' = ret
    /\ UNCHANGED <<NAMED_VALIDATORS, VALIDATOR_FACTORIES, REQUIRED_PROPERTIES,
                   ADDITIONAL_PROPERTIES, nextOid, held, registered, frames, heap, lock>>

\* register, line 147: _NAMED_VALIDATORS[name] = validator
RegisterWrite(t) ==
    /\ pc[t].at = "register_write"
    /\ LET r == Register(pc[t].name, pc[t].validator, World)
       IN Commit(r.W)
    /\ pc' = [pc EXCEPT ![t] = Idle]
    /\ UNCHANGED <<held, ret, registered, frames, heap, lock>>

\* register_factory(func): the call
BeginRegisterFactory(t, func) ==
    /\ pc[t] = Idle
    /\ \A i \in DOMAIN VALIDATOR_FACTORIES : VALIDATOR_FACTORIES[i] # func
    /\ pc' = [pc EXCEPT ![t] = [at |-> "register_factory_insert", func |-> func]]
    /\ UNCHANGED <<NAMED_VALIDATORS, VALIDATOR_FACTORIES, REQUIRED_PROPERTIES,
                   ADDITIONAL_PROPERTIES, nextOid, held, ret, registered, frames,
                   heap, lock>>

\* register_factory, line 157: _VALIDATOR_FACTORIES.insert(0, func)
RegisterFactoryInsert(t) ==
    /\ pc[t].at = "register_factory_insert"
    /\ LET r == RegisterFactory(pc[t].func, World)
       IN Commit(r.W)
    /\ registered' = Append(registered, pc[t].func)
    /\ pc' = [pc EXCEPT ![t] = Idle]
    /\ UNCHANGED <<held, ret, frames, heap, lock>>

\* parse(name), line 83: validator = _NAMED_VALIDATORS[obj]; an instance is
\* returned, a class goes on to line 91.
BeginParse(t, obj) ==
    /\ pc[t] = Idle
    /\ nextOid < MaxThreadOid
    /\ obj \in DOMAIN NAMED_VALIDATORS
    /\ LET validator == NAMED_VALIDATORS[obj]
       IN IF IsValidatorClass(validator)
          THEN /\ pc' = [pc EXCEPT ![t] = [at |-> "parse_instantiate", obj |-> obj,
                                            validator |-> validator]]
               /\ UNCHANGED <<ret, held>>
          ELSE /\ pc' = pc
               /\ ret' = ret
               /\ Keep(ParseResult(Ok(World, validator)))
    /\ UNCHANGED <<NAMED_VALIDATORS, VALIDATOR_FACTORIES, REQUIRED_PROPERTIES,
                   ADDITIONAL_PROPERTIES, nextOid, registered, frames, heap, lock>>

\* parse, line 91, the right-hand side: validator()
ParseInstantiate(t) ==
    /\ pc[t].at = "parse_instantiate"
    /\ LET Called(r) ==
               /\ Commit(r.W)
               /\ pc' = [pc EXCEPT ![t] = [at |-> "parse_write", obj |-> pc[t].obj,
                                            validator |-> r.v]]
       IN Called(Instantiate(pc[t].validator.c, World))
    /\ UNCHANGED <<held, ret, registered, frames, heap, lock>>

\* parse, line 91, the assignment _NAMED_VALIDATORS[obj] = validator, and
\* the return
ParseWrite(t) ==
    /\ pc[t].at = "parse_write"
    /\ LET r == ParseResult(Ok([World EXCEPT !.reg = [n \in DOMAIN @ \cup {pc[t].obj} |->
                                   IF n = pc[t].obj THEN pc[t].validator ELSE @[n]]],
                               pc[t].validator))
       IN /\ Commit(r.W)
          /\ Keep(r)
    /\ pc' = [pc EXCEPT ![t] = Idle]
    /\ UNCHANGED <<ret, registered, frames, heap, lock>>

\* A class statement, _MetaValidator.__new__ up to line 165
BeginClass(t, cls) ==
    /\ pc[t] = Idle
    /\ DeclaredName(cls) # PyNone
    /\ NAMED_VALIDATORS[DeclaredName(cls)] # PyClass(cls)
    /\ pc' = [pc EXCEPT ![t] = [at |-> "class_write", cls |-> cls]]
    /\ UNCHANGED <<NAMED_VALIDATORS, VALIDATOR_FACTORIES, REQUIRED_PROPERTIES,
                   ADDITIONAL_PROPERTIES, nextOid, held, ret, registered, frames,
                   heap, lock>>

\* _MetaValidator.__new__, line 166: _NAMED_VALIDATORS[validator_name] =
\* validator_type
ClassWrite(t) ==
    /\ pc[t].at = "class_write"
    /\ LET r == MetaValidatorNew(pc[t].cls, World)
       IN Commit(r.W)
    /\ pc' = [pc EXCEPT ![t] = Idle]
    /\ UNCHANGED <<held, ret, registered, frames, heap, lock>>

\* with parsing(required_properties, additional_properties): the call
BeginParsing(t, required_properties, additional_properties) ==
    /\ pc[t] = Idle
    /\ pc' = [pc EXCEPT ![t] = [at |-> "parsing_acquire",
                                 required_properties |-> required_properties,
                                 additional_properties |-> additional_properties]]
    /\ UNCHANGED <<NAMED_VALIDATORS, VALIDATOR_FACTORIES, REQUIRED_PROPERTIES,
                   ADDITIONAL_PROPERTIES, nextOid, held, ret, registered, frames,
                   heap, lock>>

\* parsing, line 127: with _VALIDATOR_FACTORIES_LOCK; the thread waits while
\* another thread holds the lock.
AcquireLock(t) ==
    /\ pc[t].at = "parsing_acquire"
    /\ lock.owner \in {0, t}
    /\ lock' = [owner |-> t, count |-> lock.count + 1]
    /\ pc' = [pc EXCEPT ![t].at = "parsing_push"]
    /\ UNCHANGED <<NAMED_VALIDATORS, VALIDATOR_FACTORIES, REQUIRED_PROPERTIES,
                   ADDITIONAL_PROPERTIES, nextOid, held, ret, registered, frames, heap>>

\* parsing, lines 128 to 135: the defaults are overridden and the body runs
PushDefaults(t) ==
    /\ pc[t].at = "parsing_push"
    /\ LET e == ParsingEnter(pc[t].required_properties, pc[t].additional_properties,
                             World)
       IN /\ Commit(e.W)
          /\ pc' = [pc EXCEPT ![t] = [at |-> "parsing_body", frame |-> e.frame]]
    /\ UNCHANGED <<held, ret, registered, frames, heap, lock>>

\* parsing, lines 136 to 140: the body returned or raised, the finally
\* clause restores the defaults
PopDefaults(t, raised) ==
    /\ pc[t].at = "parsing_body"
    /\ Commit(ParsingExit(pc[t].frame, raised, World))
    /\ pc' = [pc EXCEPT ![t] = [at |-> "parsing_release"]]
    /\ UNCHANGED <<held, ret, registered, frames, heap, lock>>

\* parsing: the end of the with statement of line 127 releases the lock
ReleaseLock(t) ==
    /\ pc[t].at = "parsing_release"
    /\ lock' = IF lock.count = 1 THEN Unlocked ELSE [lock EXCEPT !.count = @ - 1]
    /\ pc' = [pc EXCEPT ![t] = Idle]
    /\ UNCHANGED <<NAMED_VALIDATORS, VALIDATOR_FACTORIES, REQUIRED_PROPERTIES,
                   ADDITIONAL_PROPERTIES, nextOid, held, ret, registered, frames, heap>>

\* The dict descriptor a thread has parse compile: {"x": "integer"}
ThreadSchema == Schema(<<Name("x")>>, <<Name("integer")>>)

\* parse(obj) of a dict, without overrides, by a thread that is in no
\* parsing block: the factories are tried and _ObjectFactory reads
\* Object.REQUIRED_PROPERTIES, Object.__init__ Object.ADDITIONAL_PROPERTIES.
ParseDict(t, obj) ==
    /\ pc[t] = Idle
    /\ nextOid < MaxThreadOid
    /\ LET Return(r) ==
               /\ Commit(r.W)
               /\ ret' = [Call("parse", obj, PyNone, r) EXCEPT !.log = <<>>]
       IN Return(Parse(obj, World))
    /\ UNCHANGED <<held, registered, frames, heap, pc, lock>>

InitThreads ==
    /\ Imported
    /\ heap = <<>>

NextThreads ==
    \E t \in Threads :
       \/ \E name \in RegisterNames, validator \in held \cup {PyClass("int")} :
             BeginRegister(t, name, validator)
       \/ RegisterWrite(t)
       \/ BeginRegisterFactory(t, "IntFactory")
       \/ RegisterFactoryInsert(t)
       \/ \E obj \in RegisterNames : BeginParse(t, obj)
       \/ ParseInstantiate(t)
       \/ ParseWrite(t)
       \/ ParseDict(t, ThreadSchema)
       \/ BeginClass(t, "MyInteger")
       \/ ClassWrite(t)
       \/ BeginParsing(t, PyBool(TRUE), PyNone)
       \/ AcquireLock(t)
       \/ PushDefaults(t)
       \/ \E raised \in BOOLEAN : PopDefaults(t, raised)
       \/ ReleaseLock(t)

SpecThreads == InitThreads /\ [][NextThreads]_vars

(* ------------------------------------------------------------------ *)
(* Claims about threads (specification SpecThreads)                     *)
(* ------------------------------------------------------------------ *)

\* Thread t is in a statement that writes the registry
InRegistryMutation(t) == pc[t].at \in {"register_write", "parse_write", "class_write"}

\* Thread t is in the statement that writes the factory chain
InFactoryMutation(t) == pc[t].at = "register_factory_insert"

\* Thread t is in a parsing block, from the push of the ambient defaults to
\* their pop: it holds _VALIDATOR_FACTORIES_LOCK
InContext(t) == lock.owner = t

\* C7 as stated: registry mutation, factory-chain mutation and the push and
\* pop of the ambient defaults are mutually exclusive: in no state are two
\* threads each in one of them.
C7_MutualExclusion ==
    \A t1, t2 \in Threads :
        t1 # t2 =>
            ~ /\ InRegistryMutation(t1) \/ InFactoryMutation(t1) \/ InContext(t1)
              /\ InRegistryMutation(t2) \/ InFactoryMutation(t2) \/ InContext(t2)

\* C29 as stated: no update of the registry is lost.  The write of parse
\* that binds a name to the instance it made never replaces an instance,
\* which a register call or another parse of the name bound the name to in
\* the meantime: a completed register is not overwritten, and no parse
\* returns an instance other than the one the name is bound to.
C29_NoLostUpdate ==
    [][\A t \in Threads :
          (pc[t].at = "parse_write" /\ pc'[t] = Idle) =>
             ~IsValidator(NAMED_VALIDATORS[pc[t].obj])
      ]_vars

\* C30 as stated: the overrides of a parsing block do not leak to another
\* thread.  A parse without overrides by a thread that is in no parsing
\* block compiles its Object validator under the ambient defaults as they
\* are outside every block: a key without prefix is optional and the
\* additional-property policy is True, whatever block another thread is in.
C30_NoLeak ==
    (ret.op = "parse" /\ ret.obj = ThreadSchema /\ ret.k = "ok") =>
        /\ ret.v.cls = "Object"
        /\ Name("x") \in ret.v.all_keys
        /\ Name("x") \notin ret.v.required_keys
        /\ ret.v.additional = PyBool(TRUE)

(* ------------------------------------------------------------------ *)
(* Object validators and containers (specification SpecObject)          *)
(* ------------------------------------------------------------------ *)

\* The dicts and the list the caller validates
ObjectHeap ==
    << DictOf(<<"a", "b">>, <<PyStr(<<"1">>), PyStr(<<"1">>)>>),
       EmptyDict,
       DictOf(<<"a", "x", "y">>, <<PyInt(1), PyStr(<<"1">>), PyStr(<<"1">>)>>),
       DictOf(<<"a", "b">>, <<PyNone, PyInt(1)>>),
       DictOf(<<"a", "b", "c", "x", "y">>,
              <<PyInt(1), PyInt(2), PyInt(2), PyStr(<<"1">>), PyInt(2)>>),
       PyList(<<PyStr(<<"1">>), PyStr(<<"1">>)>>),
       DictOf(<<"a", "b", "c">>, <<PyInt(1), PyInt(2), PyNone>>),
       DictOf(<<"a", "b">>, <<PyInt(1), PyInt(2)>>),
       DictOf(<<"a", "x">>, <<PyStr(<<"1">>), PyStr(<<"1">>)>>),
       DictOf(<<"a", "b", "x">>, <<PyStr(<<"1">>), PyInt(1), PyInt(1)>>) >>

ObjectInputs == {PyRef(a) : a \in 1..Len(ObjectHeap)}

\* The sequence descriptors the caller has parse compile: ["integer"] and
\* ("integer", "integer")
SequenceDescriptors ==
    {PyList(<<Name("integer")>>), PyTuple(<<Name("integer"), Name("integer")>>)}

\* The validators the caller constructs itself, h being those it holds:
\* AdaptBy(int, traps=ValueError), Nullable("integer", default) and
\* Object(optional={"c": <"?integer" or a Nullable of h>, "d": "integer"},
\*        required={"a": "integer", "b": "integer"}, additional=<policy>)
ObjectConstructions(h) ==
    {[cls |-> "AdaptBy", adaptor |-> PyFunc("int"), traps |-> {"ValueError"}]}
    \cup {[cls |-> "Nullable", schema |-> Name("integer"), default |-> d] :
             d \in {PyInt(0), PyFunc("zero")}}
    \cup {[cls |-> "Object",
           optional |-> DictOf(<<"c", "d">>, <<c, Name("integer")>>),
           required |-> DictOf(<<"a", "b">>, <<Name("integer"), Name("integer")>>),
           additional |-> additional] :
             c \in {PyStr(<<"?", "integer">>)} \cup {v \in h : v.cls = "Nullable"},
             additional \in {PyBool(TRUE), PyBool(FALSE), REMOVE, Name("integer")}
                            \cup {v \in h : v.cls = "AdaptBy"}}

InitObject ==
    /\ Imported
    /\ heap = ObjectHeap

NextObject ==
    \/ \E obj \in SequenceDescriptors : DoParse(obj)
    \/ \E c \in ObjectConstructions(held) : DoConstruct(c)
    \/ \E self \in held, value \in ObjectInputs, adapt \in BOOLEAN :
          DoValidate(self, value, adapt)
    \/ \E self \in held, value \in ObjectInputs, adapt \in BOOLEAN :
          DoFullValidate(self, value, adapt)
    \/ \E self \in held, value \in ObjectInputs : DoIsValid(self, value)

SpecObject == InitObject /\ [][NextObject]_vars

\* The containers of the library that the model has
Containers == {"Object", "HomogeneousSequence", "HeterogeneousSequence"}

\* The elements of value that the validator of a container rejects: the
\* indexes of a sequence, the names of the declared properties of a dict
Failing(self, value, M) ==
    LET x == Deref(value, M)
        Fails(v, e) == LET r == Validate(v, e, TRUE, M)
                         IN r.k = "raise" /\ r.v.t = "VE"
    IN CASE self.cls = "Object" /\ x.t = "dict" ->
               {self.named_validators[i].name : i \in
                   {j \in 1..Len(self.named_validators) :
                       /\ self.named_validators[j].name \in DOMAIN x.d
                       /\ Fails(self.named_validators[j].validator,
                                  x.d[self.named_validators[j].name])}}
         [] self.cls = "HomogeneousSequence" /\ x.t = "list" ->
               {PyInt(i - 1) : i \in {j \in 1..Len(x.l) : Fails(self.item_validator, x.l[j])}}
         [] self.cls = "HeterogeneousSequence" /\ x.t = "list"
                /\ Len(x.l) = Len(self.item_validators) ->
               {PyInt(i - 1) : i \in {j \in 1..Len(x.l) :
                                         Fails(self.item_validators[j], x.l[j])}}
         [] OTHER -> {}

\* C11: full_validate of a container on an input with k >= 1 failing
\* elements raises one MultipleValidationError that holds the k errors of
\* the elements, each with the index or the name of its element as context.
C11_FullAggregates ==
    (/\ ret.op = "full_validate"
     /\ ret.obj.cls \in Containers
     /\ Failing(ret.obj, ret.arg, Memory) # {}) =>
        /\ ret.k = "raise"
        /\ ret.v.t = "MVE"
        /\ Len(ret.v.errors) = Cardinality(Failing(ret.obj, ret.arg, Memory))
        /\ {e.context : e \in {ret.v.errors[i] : i \in 1..Len(ret.v.errors)}}
              = {<<c>> : c \in Failing(ret.obj, ret.arg, Memory)}

\* C26: Object.validate reports the first failure in the order of its
\* checks.  An input that is no dict raises the error of the type check, on
\* the input and without context.  A dict that lacks a required key raises
\* the error of the missing keys, whatever its properties are.  A dict that
\* lacks none and has a declared property that its validator rejects
\* raises the error of such a property, with the name of the property as
\* context, whatever its other keys and the policy are.  Only a dict that
\* passes these is rejected for its other keys: by the policy False with the
\* error of the additional properties, without context, or by the validator
\* that is the policy with one of these keys as context.
C26_CheckOrder ==
    (ret.op = "validate" /\ ret.obj.cls = "Object") =>
        LET x == Deref(ret.arg, Memory)
            missing == ret.obj.required_keys \ DOMAIN x.d
            failing == Failing(ret.obj, ret.arg, Memory)
            U == DOMAIN x.d \ ret.obj.all_keys
            Raised(head) == /\ ret.k = "raise"
                            /\ ret.v.t = "VE"
                            /\ Head(ret.v.msg) = head
                            /\ ret.v.value = ret.arg
                            /\ ret.v.context = <<>>
        IN IF x.t # "dict"
           THEN /\ ret.k = "raise"
                /\ ret.v = Error(ret.obj, ret.arg)
                /\ ret.v.context = <<>>
           ELSE IF missing # {}
           THEN Raised("missing required properties: ")
           ELSE IF failing # {}
           THEN /\ ret.k = "raise"
                /\ ret.v.t = "VE"
                /\ \E name \in failing :
                      /\ ret.v.context = <<name>>
                      /\ ret.v.value = x.d[name]
           ELSE (ret.k = "raise" /\ ret.v.t = "VE") =>
                   \/ /\ ret.obj.additional = PyBool(FALSE)
                      /\ U # {}
                      /\ Raised("additional properties: ")
                   \/ /\ IsValidator(ret.obj.additional)
                      /\ \E name \in U :
                            /\ ret.v.context = <<name>>
                            /\ ret.v.value = x.d[name]

\* C26 witness: an Object with the policy False that requires the integers
\* "a" and "b" was given {"a": "1", "b": 1, "x": 1}, which has a declared
\* property that is no integer and an undeclared key; the error is that of
\* "a", with "a" as context.
C26_Witness ==
    /\ ret.op = "validate"
    /\ ret.obj.cls = "Object"
    /\ ret.obj.additional = PyBool(FALSE)
    /\ ret.arg = PyRef(10)
    /\ Deref(ret.arg, Memory).d[Name("x")] = PyInt(1)
    /\ Name("x") \notin ret.obj.all_keys
    /\ Failing(ret.obj, ret.arg, Memory) = {Name("a")}
    /\ ret.k = "raise"
    /\ ret.v.context = <<Name("a")>>
    /\ ret.v.value = PyStr(<<"1">>)

(* ------------------------------------------------------------------ *)
(* Composites and null wrappers (specification SpecCompose)             *)
(* ------------------------------------------------------------------ *)

\* The values the caller validates: None, "1", 1 and 2
ComposeInputs == {PyNone, PyStr(<<"1">>), PyInt(1), PyInt(2)}

\* The validators the caller constructs itself, h being those it holds:
\* AdaptBy(int, traps=ValueError), Condition(is_even, traps=()), the
\* composites of a name and one of these two in both orders and of nothing,
\* Nullable(schema, default) and NonNullable(schema) of a name, a prefixed
\* name, the class NonNullable or an instance of h.
ComposeConstructions(h) ==
    {[cls |-> "AdaptBy", adaptor |-> PyFunc("int"), traps |-> {"ValueError"}],
     [cls |-> "Condition", predicate |-> PyFunc("is_even"), traps |-> {}]}
    \cup {[cls |-> cls, schemas |-> schemas] :
             cls \in {"AnyOf", "AllOf", "ChainOf"},
             schemas \in {<<>>}
                \cup {<<n, v>> : n \in {Name("string"), Name("integer")},
                                 v \in {x \in h : x.cls \in {"AdaptBy", "Condition"}}}
                \cup {<<v, n>> : n \in {Name("string"), Name("integer")},
                                 v \in {x \in h : x.cls \in {"AdaptBy", "Condition"}}}}
    \cup {[cls |-> "Nullable", schema |-> schema, default |-> default] :
             schema \in {Name("integer"), PyStr(<<"+", "integer">>), PyClass("NonNullable")}
                        \cup {x \in h : x.cls \in {"Condition", "Nullable", "NonNullable"}},
             default \in {PyNone, PyInt(0), PyFunc("zero")}}
    \cup {[cls |-> "NonNullable", schema |-> schema] :
             schema \in {Name("integer"), PyStr(<<"?", "integer">>)}
                        \cup {x \in h : x.cls \in {"Nullable", "NonNullable"}}}

InitCompose ==
    /\ Imported
    /\ heap = <<>>

NextCompose ==
    \/ \E c \in ComposeConstructions(held) : DoConstruct(c)
    \/ \E self \in held, value \in ComposeInputs, adapt \in BOOLEAN :
          DoValidate(self, value, adapt)
    \/ \E self \in held, value \in ComposeInputs : DoIsValid(self, value)

SpecCompose == InitCompose /\ [][NextCompose]_vars

\* What validator i of the composite self does with value, alone, as the
\* caller sees it
Branch(self, i, value, adapt) ==
    Seen(Validate(self.validators[i], value, adapt, Memory), Len(heap))

\* Validator i of the composite self rejects value with a ValidationError
Rejects(self, i, value, adapt) ==
    /\ Branch(self, i, value, adapt).k = "raise"
    /\ Branch(self, i, value, adapt).v.t = "VE"

\* C12: AnyOf.validate returns what its first validator that does not raise
\* a ValidationError returns or raises, whatever the validators after it
\* would do; when all raise one it raises one ValidationError on the value,
\* without context, whose message is their messages in order with " or "
\* between them.
C12_AnyOf ==
    (ret.op = "validate" /\ ret.obj.cls = "AnyOf") =>
        LET n == Len(ret.obj.validators)
            first == {i \in 1..n :
                         /\ ~Rejects(ret.obj, i, ret.arg, ret.adapt)
                         /\ \A j \in 1..(i - 1) : Rejects(ret.obj, j, ret.arg, ret.adapt)}
            msgs[i \in 0..n] ==
                IF i = 0 THEN <<>>
                ELSE (IF i = 1 THEN <<>> ELSE msgs[i - 1] \o <<" or ">>)
                     \o Branch(ret.obj, i, ret.arg, ret.adapt).v.msg
        IN IF first # {}
           THEN \A i \in first :
                   /\ ret.k = Branch(ret.obj, i, ret.arg, ret.adapt).k
                   /\ ret.v = Branch(ret.obj, i, ret.arg, ret.adapt).v
           ELSE /\ ret.k = "raise"
                /\ ret.v = [t |-> "VE", msg |-> msgs[n], value |-> ret.arg,
                            context |-> <<>>]

\* C12 witness: AnyOf(AdaptBy(int), "string") was given "1", which both
\* accept, and returned 1, what the first returns.
C12_Witness ==
    /\ ret.op = "validate"
    /\ ret.obj.cls = "AnyOf"
    /\ Len(ret.obj.validators) = 2
    /\ ret.obj.validators[1].cls = "AdaptBy"
    /\ ret.obj.validators[2].cls = "String"
    /\ ret.arg = PyStr(<<"1">>)
    /\ Branch(ret.obj, 2, ret.arg, ret.adapt) = [k |-> "ok", v |-> PyStr(<<"1">>)]
    /\ ret.k = "ok"
    /\ ret.v = PyInt(1)

\* C13: AllOf.validate gives the value itself to every validator; it raises
\* what the first validator that raises does, whatever the validators after
\* it would do; when none raises it returns what the last one returns, and
\* the value itself when it has no validator.
C13_AllOf ==
    (ret.op = "validate" /\ ret.obj.cls = "AllOf") =>
        LET n == Len(ret.obj.validators)
            first == {i \in 1..n :
                         /\ Branch(ret.obj, i, ret.arg, ret.adapt).k = "raise"
                         /\ \A j \in 1..(i - 1) :
                               Branch(ret.obj, j, ret.arg, ret.adapt).k = "ok"}
        IN IF n = 0 THEN ret.k = "ok" /\ ret.v = ret.arg
           ELSE IF first # {}
           THEN \A i \in first :
                   /\ ret.k = "raise"
                   /\ ret.v = Branch(ret.obj, i, ret.arg, ret.adapt).v
           ELSE /\ ret.k = "ok"
                /\ ret.v = Branch(ret.obj, n, ret.arg, ret.adapt).v

\* C13 witness: AllOf(AdaptBy(int), "string") was given "1" and returned
\* "1": the first returned 1, which "string" rejects, and "string" was given
\* "1".
C13_Witness ==
    /\ ret.op = "validate"
    /\ ret.obj.cls = "AllOf"
    /\ Len(ret.obj.validators) = 2
    /\ ret.obj.validators[2].cls = "String"
    /\ ret.arg = PyStr(<<"1">>)
    /\ Branch(ret.obj, 1, ret.arg, ret.adapt) = [k |-> "ok", v |-> PyInt(1)]
    /\ Seen(Validate(ret.obj.validators[2], PyInt(1), ret.adapt, Memory), Len(heap)).k
          = "raise"
    /\ ret.k = "ok"
    /\ ret.v = PyStr(<<"1">>)

\* C14: ChainOf.validate, with adapt or without, gives the value to its
\* first validator and to every other validator what the one before it
\* returned; it returns what the last one returns, and the first exception
\* of a validator ends it.
C14_ChainOf ==
    (ret.op = "validate" /\ ret.obj.cls = "ChainOf") =>
        LET n == Len(ret.obj.validators)
            piped[i \in 0..n] ==
                IF i = 0 THEN [k |-> "ok", v |-> ret.arg]
                ELSE IF piped[i - 1].k = "raise" THEN piped[i - 1]
                ELSE Seen(Validate(ret.obj.validators[i], piped[i - 1].v, ret.adapt, Memory),
                          Len(heap))
        IN /\ ret.k = piped[n].k
           /\ ret.v = piped[n].v

\* C14 witness: ChainOf(AdaptBy(int), "integer") was given "1" without adapt
\* and returned 1: "integer", which rejects "1", was given the 1 that the
\* first returned.
C14_Witness ==
    /\ ret.op = "validate"
    /\ ret.obj.cls = "ChainOf"
    /\ ~ret.adapt
    /\ Len(ret.obj.validators) = 2
    /\ ret.obj.validators[1].cls = "AdaptBy"
    /\ ret.obj.validators[2].cls = "Integer"
    /\ ret.arg = PyStr(<<"1">>)
    /\ Branch(ret.obj, 2, ret.arg, ret.adapt).k = "raise"
    /\ ret.k = "ok"
    /\ ret.v = PyInt(1)

\* C15: Nullable.validate(None) returns the default, what the default
\* returns when it is callable, and is_valid(None) is true, whatever the
\* wrapped validator would do with None; for a value that is not None the
\* outcome is that of the wrapped validator.
C15_Nullable ==
    (ret.op \in {"validate", "is_valid"} /\ ret.obj.cls = "Nullable") =>
        /\ (ret.op = "validate" /\ ret.arg = PyNone) =>
              /\ ret.k = "ok"
              /\ ret.v = IF ret.obj.default.t = "func"
                         THEN CallRoutine(ret.obj.default.f, PyNone, Memory).v
                         ELSE ret.obj.default
        /\ (ret.op = "is_valid" /\ ret.arg = PyNone) =>
              ret.k = "ok" /\ ret.v = PyBool(TRUE)
        /\ (ret.op = "validate" /\ ret.arg # PyNone /\ ret.obj.validator # PyNone) =>
              LET r == Seen(Validate(ret.obj.validator, ret.arg, ret.adapt, Memory), Len(heap))
              IN ret.k = r.k /\ ret.v = r.v

\* C15 witness: Nullable(Condition(is_even, traps=()), default=zero) was
\* given None and returned 0, what zero returns; the Condition alone raises
\* TypeError on None.
C15_Witness ==
    /\ ret.op = "validate"
    /\ ret.obj.cls = "Nullable"
    /\ ret.obj.validator # PyNone
    /\ ret.obj.validator.cls = "Condition"
    /\ ret.obj.default = PyFunc("zero")
    /\ ret.arg = PyNone
    /\ Seen(Validate(ret.obj.validator, PyNone, ret.adapt, Memory), Len(heap))
          = [k |-> "raise", v |-> PyExc("TypeError")]
    /\ ret.k = "ok"
    /\ ret.v = PyInt(0)

\* C16: the validator that a Nullable or a NonNullable stores is never a
\* Nullable or a NonNullable itself, whether the descriptor was a prefixed
\* string, a class or an instance.
C16_Unwrapped ==
    (/\ ret.op = "construct"
     /\ ret.k = "ok"
     /\ ret.v.cls \in {"Nullable", "NonNullable"}
     /\ ret.v.validator # PyNone) =>
        ret.v.validator.cls \notin {"Nullable", "NonNullable"}

\* C28 as stated: the validator that a Nullable stores is a validator,
\* whatever the descriptor it was constructed from without error, and
\* validate of a value that is not None is what that validator makes of it.
C28_InnerValidator ==
    /\ (ret.op = "construct" /\ ret.k = "ok" /\ ret.v.cls = "Nullable") =>
          IsValidator(ret.v.validator)
    /\ (ret.op = "validate" /\ ret.obj.cls = "Nullable" /\ ret.arg # PyNone) =>
          /\ IsValidator(ret.obj.validator)
          /\ ret.k = Seen(Validate(ret.obj.validator, ret.arg, ret.adapt, Memory),
                          Len(heap)).k
          /\ ret.v = Seen(Validate(ret.obj.validator, ret.arg, ret.adapt, Memory),
                          Len(heap)).v

\* The names that a message lists after its first piece
Listed(msg) == {<<msg[i]>> : i \in 2..Len(msg)}

\* C17: Object.validate of a dict that lacks required keys raises one
\* ValidationError on the whole dict, without context, whose message lists
\* every missing key once, whatever the other properties are; it raises no
\* such error when no required key is missing, a required key with the value
\* None being present.
C17_MissingRequired ==
    (/\ ret.op = "validate"
     /\ ret.obj.cls = "Object"
     /\ Deref(ret.arg, Memory).t = "dict") =>
        LET missing == ret.obj.required_keys \ DOMAIN Deref(ret.arg, Memory).d
        IN IF missing # {}
           THEN /\ ret.k = "raise"
                /\ ret.v.t = "VE"
                /\ Head(ret.v.msg) = "missing required properties: "
                /\ Listed(ret.v.msg) = {k.s : k \in missing}
                /\ Len(ret.v.msg) = 1 + Cardinality(missing)
                /\ ret.v.value = ret.arg
                /\ ret.v.context = <<>>
           ELSE ~(/\ ret.k = "raise"
                  /\ ret.v.t = "VE"
                  /\ Head(ret.v.msg) = "missing required properties: ")

\* C17 witness: an Object that requires "a" and "b" was given {}, and the
\* one error lists both.
C17_Witness ==
    /\ ret.op = "validate"
    /\ ret.obj.cls = "Object"
    /\ ret.obj.required_keys = {Name("a"), Name("b")}
    /\ Deref(ret.arg, Memory) = EmptyDict
    /\ ret.k = "raise"
    /\ Listed(ret.v.msg) = {<<"a">>, <<"b">>}

\* The input of validate is a dict that has every required key and whose
\* declared properties are all valid
DeclaredValid ==
    /\ ret.op = "validate"
    /\ ret.obj.cls = "Object"
    /\ Deref(ret.arg, Memory).t = "dict"
    /\ ret.obj.required_keys \subseteq DOMAIN Deref(ret.arg, Memory).d
    /\ Failing(ret.obj, ret.arg, Memory) = {}

\* C18: Object.validate of a dict whose declared properties are all valid
\* and whose other keys are U.  Policy True: it returns, and the adapted
\* result has every key of U with its value.  Policy False: it raises
\* exactly when U is not empty, one ValidationError on the dict whose message
\* lists the keys of U.  Policy REMOVE: it returns, and the adapted result
\* has no key of U and every declared key of the input.  A validator as
\* policy: it raises the ValidationError of a value of U that the validator
\* rejects, with the key as context, and otherwise the adapted result has
\* under every key of U what the validator returned.
C18_Additional ==
    DeclaredValid =>
        LET x == Deref(ret.arg, Memory).d
            U == DOMAIN x \ ret.obj.all_keys
            policy == ret.obj.additional
            Extra(k) == Seen(Validate(policy, x[k], ret.adapt, Memory), Len(heap))
        IN CASE policy = PyBool(TRUE) ->
                   /\ ret.k = "ok"
                   /\ ret.adapt => \A k \in U : k \in DOMAIN ret.v.d /\ ret.v.d[k] = x[k]
             [] policy = PyBool(FALSE) ->
                   /\ ret.k = "raise" <=> U # {}
                   /\ U # {} =>
                         /\ ret.v.t = "VE"
                         /\ Head(ret.v.msg) = "additional properties: "
                         /\ Listed(ret.v.msg) = {k.s : k \in U}
                         /\ ret.v.value = ret.arg
                         /\ ret.v.context = <<>>
             [] policy = REMOVE ->
                   /\ ret.k = "ok"
                   /\ ret.adapt =>
                         /\ DOMAIN ret.v.d \cap U = {}
                         /\ ret.obj.all_keys \cap DOMAIN x \subseteq DOMAIN ret.v.d
             [] OTHER ->
                   IF \E k \in U : Extra(k).k = "raise"
                   THEN /\ ret.k = "raise"
                        /\ \E k \in U :
                              /\ Extra(k).k = "raise"
                              /\ ret.v = AddContext(Extra(k).v, k)
                   ELSE /\ ret.k = "ok"
                        /\ ret.adapt => \A k \in U : k \in DOMAIN ret.v.d
                                                     /\ ret.v.d[k] = Extra(k).v

\* C18 witness: an Object whose policy is AdaptBy(int) was given a dict with
\* the undeclared "x": "1" and "y": 2 and returned a dict with "x": 1.
C18_Witness ==
    /\ DeclaredValid
    /\ ret.adapt
    /\ ret.obj.additional \notin {PyBool(TRUE), PyBool(FALSE), REMOVE}
    /\ ret.obj.additional.cls = "AdaptBy"
    /\ DOMAIN Deref(ret.arg, Memory).d \ ret.obj.all_keys = {Name("x"), Name("y")}
    /\ Deref(ret.arg, Memory).d[Name("x")] = PyStr(<<"1">>)
    /\ ret.k = "ok"
    /\ ret.v.d[Name("x")] = PyInt(1)

\* C19: Object.validate with adapt, when it returns: a declared key that the
\* input lacks is in the result exactly when its validator is a Nullable
\* whose default, called when it is callable, is not None, and then with that
\* default; a declared key that the input has with a value other than None
\* has in the result what its validator returned for that value.
C19_Backfill ==
    (/\ ret.op = "validate"
     /\ ret.obj.cls = "Object"
     /\ ret.adapt
     /\ ret.k = "ok") =>
        LET x == Deref(ret.arg, Memory).d
            Resolved(v) == IF v.default.t = "func"
                           THEN CallRoutine(v.default.f, PyNone, Memory).v
                           ELSE v.default
        IN \A i \in 1..Len(ret.obj.named_validators) :
              LET name == ret.obj.named_validators[i].name
                  v == ret.obj.named_validators[i].validator
              IN /\ name \notin DOMAIN x =>
                       IF v.cls = "Nullable" /\ Resolved(v) # PyNone
                       THEN name \in DOMAIN ret.v.d /\ ret.v.d[name] = Resolved(v)
                       ELSE name \notin DOMAIN ret.v.d
                 /\ (name \in DOMAIN x /\ x[name] # PyNone) =>
                       /\ name \in DOMAIN ret.v.d
                       /\ ret.v.d[name] = Seen(Validate(v, x[name], TRUE, Memory), Len(heap)).v

\* C19 witness: an Object whose optional "c" is Nullable("integer",
\* default=zero) and whose optional "d" is "integer" was given
\* {"a": 1, "b": 2} and returned a dict with "c": 0 and without "d".
C19_Witness ==
    /\ ret.op = "validate"
    /\ ret.obj.cls = "Object"
    /\ ret.adapt
    /\ ret.arg = PyRef(8)
    /\ DOMAIN Deref(ret.arg, Memory).d = {Name("a"), Name("b")}
    /\ \E i \in 1..Len(ret.obj.named_validators) :
          /\ ret.obj.named_validators[i].name = Name("c")
          /\ ret.obj.named_validators[i].validator.cls = "Nullable"
          /\ ret.obj.named_validators[i].validator.default = PyFunc("zero")
    /\ ret.k = "ok"
    /\ DOMAIN ret.v.d = {Name("a"), Name("b"), Name("c")}
    /\ ret.v.d[Name("c")] = PyInt(0)

(* ------------------------------------------------------------------ *)
(* The keys of a dict descriptor (specification SpecKeys)               *)
(* ------------------------------------------------------------------ *)

MaxKeyOid == 4

\* The keys of the dict descriptors the caller compiles
DescriptorKeys ==
    {Name("a"), Key("+", "a"), Key("?", "a"), Name("b"), Key("+", "b"), Key("?", "b")}

\* The dict descriptors of one or two of these keys, every key with the
\* schema "integer"
KeyDescriptors ==
    {Schema(<<k1, k2>>, <<Name("integer"), Name("integer")>>) :
        k1 \in DescriptorKeys, k2 \in DescriptorKeys}

\* parse(obj, required_properties); the caller drops the validator
DoCompile(obj, required_properties) ==
    /\ nextOid < MaxKeyOid
    /\ LET Return(r) ==
               /\ Commit(r.W)
               /\ ret' = ContextCall("parse", obj, required_properties, PyNone, r)
       IN Return(ParseOverrides(obj, required_properties, PyNone, World))
    /\ UNCHANGED <<held, registered, frames, heap, pc, lock>>

NextKeys ==
    \/ \E value \in RequiredValues : SetRequired(value)
    \/ \E obj \in KeyDescriptors, required_properties \in RequiredValues \cup {PyNone} :
          DoCompile(obj, required_properties)

SpecKeys == InitCompose /\ [][NextKeys]_vars

\* The property name of a key of a dict descriptor
Stripped(key) ==
    IF StartsWith(key, "+") \/ StartsWith(key, "?") THEN DropFirst(key) ELSE key

\* A dict descriptor was compiled
Compiled == ret.op = "parse" /\ ret.k = "ok" /\ ret.obj.t = "dict"

\* The key of the descriptor compiled counts as required: it has the prefix
\* "+", or no prefix while the default in force for the call is true
CountsAsRequired(key) ==
    \/ StartsWith(key, "+")
    \/ /\ ~StartsWith(key, "?")
       /\ Truthy(Effective(ret.required_properties, ret.req0))

\* C20 as stated: every key of a compiled dict descriptor is classified by
\* itself: the name of a "+" key is required, the name of a "?" key is
\* optional, the name of a key without prefix is required exactly when the
\* default in force is true; the names are the stripped keys.
C20_Original ==
    Compiled =>
        /\ ret.v.all_keys = {Stripped(key) : key \in DOMAIN ret.obj.d}
        /\ \A key \in DOMAIN ret.obj.d :
              Stripped(key) \in ret.v.required_keys <=> CountsAsRequired(key)

\* C20: the names of a compiled dict descriptor are its stripped keys; a
\* name is required exactly when one of the keys that strip to it is a "+"
\* key or a key without prefix under a true default, and optional otherwise;
\* so every key is classified by itself when no two keys strip to one name.
C20_Classified ==
    Compiled =>
        /\ ret.v.all_keys = {Stripped(key) : key \in DOMAIN ret.obj.d}
        /\ ret.v.required_keys =
              {Stripped(key) : key \in {k \in DOMAIN ret.obj.d : CountsAsRequired(k)}}
        /\ (\A k1, k2 \in DOMAIN ret.obj.d : Stripped(k1) = Stripped(k2) => k1 = k2) =>
              \A key \in DOMAIN ret.obj.d :
                 Stripped(key) \in ret.v.required_keys <=> CountsAsRequired(key)

\* C20 witness: {"?a": "integer", "b": "integer"} was compiled while
\* Object.REQUIRED_PROPERTIES was True: "b" is required and "a" is not.
C20_Witness ==
    /\ Compiled
    /\ DOMAIN ret.obj.d = {Key("?", "a"), Name("b")}
    /\ ret.required_properties = PyNone
    /\ ret.req0 = PyBool(TRUE)
    /\ ret.v.required_keys = {Name("b")}
    /\ ret.v.all_keys = {Name("a"), Name("b")}

(* ------------------------------------------------------------------ *)
(* The context of an error (specification SpecPath)                     *)
(* ------------------------------------------------------------------ *)

\* The values the caller validates: [1, "2", 3], {"foo": 3, "bar": <it>},
\* {"a": "1"}, [<it>] and {"bar": <it>}
PathHeap ==
    << PyList(<<PyInt(1), PyStr(<<"2">>), PyInt(3)>>),
       DictOf(<<"foo", "bar">>, <<PyInt(3), PyRef(1)>>),
       DictOf(<<"a">>, <<PyStr(<<"1">>)>>),
       PyList(<<PyRef(3)>>),
       DictOf(<<"bar">>, <<PyRef(4)>>) >>

PathInputs == {PyRef(a) : a \in 1..Len(PathHeap)}

\* The descriptors the caller has parse compile:
\* {"+foo": "integer", "?bar": ["integer"]}, [{"a": "integer"}],
\* {"bar": [{"a": "integer"}]}, ["integer"] and {"a": "integer"}
PathDescriptors ==
    {PyList(<<Name("integer")>>),
     Schema(<<Name("a")>>, <<Name("integer")>>),
     Schema(<<Key("+", "foo"), Key("?", "bar")>>,
            <<Name("integer"), PyList(<<Name("integer")>>)>>),
     PyList(<<Schema(<<Name("a")>>, <<Name("integer")>>)>>),
     Schema(<<Name("bar")>>, <<PyList(<<Schema(<<Name("a")>>, <<Name("integer")>>)>>)>>)}

InitPath ==
    /\ Imported
    /\ heap = PathHeap

NextPath ==
    \/ \E obj \in PathDescriptors : DoParse(obj)
    \/ \E self \in held, value \in PathInputs, adapt \in BOOLEAN :
          DoValidate(self, value, adapt)
    \/ \E self \in held, value \in PathInputs, adapt \in BOOLEAN :
          DoFullValidate(self, value, adapt)
    \/ \E self \in held, value \in PathInputs : DoIsValid(self, value)

SpecPath == InitPath /\ [][NextPath]_vars

\* The elements that the container self holds in value, each with its
\* place and the validator it goes to
Elements(self, value) ==
    LET x == Deref(value, Memory)
    IN CASE self.cls = "Object" /\ x.t = "dict" ->
               {<<self.named_validators[i].name, self.named_validators[i].validator,
                  x.d[self.named_validators[i].name]>> :
                   i \in {j \in 1..Len(self.named_validators) :
                             self.named_validators[j].name \in DOMAIN x.d}}
               \cup (IF IsValidator(self.additional)
                     THEN {<<k, self.additional, x.d[k]>> : k \in DOMAIN x.d \ self.all_keys}
                     ELSE {})
         [] self.cls = "HomogeneousSequence" /\ x.t \in {"list", "tuple"}
                /\ self.item_validator # PyNone ->
               {<<PyInt(i - 1), self.item_validator, Items(x)[i]>> : i \in 1..Len(Items(x))}
         [] self.cls = "HeterogeneousSequence" /\ x.t \in {"list", "tuple"}
                /\ Len(Items(x)) = Len(self.item_validators) ->
               {<<PyInt(i - 1), self.item_validators[i], Items(x)[i]>> :
                   i \in 1..Len(Items(x))}
         [] OTHER -> {}

\* The ValidationError that self raises for value is its own, on value and
\* without context, or that of one of its elements with the place of the
\* element as one more entry at the end of the context, and the same holds
\* for what the validator of the element raises.
RECURSIVE Unwinds(_, _, _)
Unwinds(self, value, adapt) ==
    LET r == Validate(self, value, adapt, Memory)
        From(c) ==
            LET e == Validate(c[2], c[3], adapt, Memory)
            IN /\ e.k = "raise"
               /\ e.v.t = "VE"
               /\ r.v = [e.v EXCEPT !.context = Append(@, c[1])]
    IN (r.k = "raise" /\ r.v.t = "VE") =>
          IF \E c \in Elements(self, value) : From(c)
          THEN \A c \in Elements(self, value) : From(c) => Unwinds(c[2], c[3], adapt)
          ELSE r.v.context = <<>> /\ r.v.value = value

Again == Seen(Validate(ret.obj, ret.v, TRUE, Memory), Len(heap))

\* The validator has no AdaptBy in it, and every Nullable in it has a
\* validator that accepts its default when the default is not None
RECURSIVE Settled(_)
Settled(self) ==
    CASE self.cls = "AdaptBy" -> FALSE
      [] self.cls = "Nullable" ->
            /\ self.validator # PyNone
            /\ Settled(self.validator)
            /\ Default(self, Memory) # PyNone =>
                  Validate(self.validator, Default(self, Memory), TRUE, Memory)
                     = VOk(Memory, Default(self, Memory))
      [] self.cls = "NonNullable" -> self.validator = PyNone \/ Settled(self.validator)
      [] self.cls \in {"AnyOf", "AllOf", "ChainOf"} ->
            \A i \in 1..Len(self.validators) : Settled(self.validators[i])
      [] OTHER -> TRUE

MaxErrors == 4

\* The addresses of the aggregates the caller makes
Aggregates == {1, 2}

\* What the caller passes as an error: two ValidationErrors, an aggregate
\* it has made, and 0, which is no error
ErrorArguments(cells) ==
    {ValidationError(<<"first">>, PyInt(1)), ValidationError(<<"second">>, PyInt(2)),
     PyInt(0)}
    \cup {PyRef(a) : a \in 1..Len(cells)}

\* The tuples of one or two of them
ErrorTuples(cells) ==
    {<<e>> : e \in ErrorArguments(cells)}
    \cup {<<e1, e2>> : e1 \in ErrorArguments(cells), e2 \in ErrorArguments(cells)}

\* add_errors(*errors) of the aggregate at the address a, every argument
\* read when the loop comes to it: done[i] is the memory and the outcome
\* after the first i arguments.
AddErrorsTo(cells, a, errors) ==
    LET done[i \in 0..Len(errors)] ==
            IF i = 0 THEN [cells |-> cells, k |-> "ok", v |-> PyNone]
            ELSE LET Put(p, r) == [cells |-> [p.cells EXCEPT ![a] = r.self],
                                   k |-> r.k,
                                   v |-> IF r.k = "raise" THEN r.v ELSE PyNone]
                     Step(p) ==
                         IF p.k = "raise" THEN p
                         ELSE Put(p, AddErrors(p.cells[a],
                                               <<IF errors[i].t = "ref"
                                                 THEN p.cells[errors[i].a]
                                                 ELSE errors[i]>>))
                 IN Step(done[i - 1])
    IN done[Len(errors)]

\* The record of a call on an aggregate: the memory before it, its
\* arguments and its outcome
ErrorCall(op, a, errors, r) ==
    [op |-> op, obj |-> PyRef(a), arg |-> errors, before |-> heap, k |-> r.k, v |-> r.v]

\* MultipleValidationError(*errors)
DoNewAggregate(errors) ==
    /\ Len(heap) < Cardinality(Aggregates)
    /\ LET Return(r) ==
               /\ r.k = "ok" => Len(r.cells[Len(heap) + 1].errors) <= MaxErrors
               /\ heap' = IF r.k = "ok" THEN r.cells ELSE heap
               /\ ret' = ErrorCall("MultipleValidationError", Len(heap) + 1, errors, r)
       IN Return(AddErrorsTo(Append(heap, [t |-> "MVE", errors |-> <<>>]),
                             Len(heap) + 1, errors))
    /\ UNCHANGED <<NAMED_VALIDATORS, VALIDATOR_FACTORIES, REQUIRED_PROPERTIES,
                   ADDITIONAL_PROPERTIES, nextOid, held, registered, frames, pc, lock>>

\* aggregate.add_errors(*errors)
DoAddErrors(a, errors) ==
    /\ LET Return(r) ==
               /\ Len(r.cells[a].errors) <= MaxErrors
               /\ heap' = r.cells
               /\ ret' = ErrorCall("add_errors", a, errors, r)
       IN Return(AddErrorsTo(heap, a, errors))
    /\ UNCHANGED <<NAMED_VALIDATORS, VALIDATOR_FACTORIES, REQUIRED_PROPERTIES,
                   ADDITIONAL_PROPERTIES, nextOid, held, registered, frames, pc, lock>>

InitErrors ==
    /\ Imported
    /\ heap = <<>>

NextErrors ==
    \/ \E errors \in ErrorTuples(heap) : DoNewAggregate(errors)
    \/ \E a \in 1..Len(heap), errors \in ErrorTuples(heap) : DoAddErrors(a, errors)

SpecErrors == InitErrors /\ [][NextErrors]_vars

\* The errors of the aggregate of the last call after the first i arguments
\* of the call, were they added in the order passed: a single error as one
\* more error, an aggregate as its errors at that moment, in their order;
\* nothing after an argument that is no error.
Added(i) ==
    LET was == IF ret.obj.a <= Len(ret.before) THEN ret.before[ret.obj.a].errors ELSE <<>>
        sofar[j \in 0..i] ==
            IF j = 0 THEN [errors |-> was, stopped |-> FALSE]
            ELSE IF sofar[j - 1].stopped THEN sofar[j - 1]
            ELSE IF ret.arg[j].t = "VE"
            THEN [errors |-> Append(sofar[j - 1].errors, ret.arg[j]), stopped |-> FALSE]
            ELSE IF ret.arg[j].t = "ref"
            THEN [errors |-> sofar[j - 1].errors \o
                             (IF ret.arg[j] = ret.obj THEN sofar[j - 1].errors
                              ELSE ret.before[ret.arg[j].a].errors),
                  stopped |-> FALSE]
            ELSE [errors |-> sofar[j - 1].errors, stopped |-> TRUE]
    IN sofar[i]

\* C23: the errors of every aggregate are single errors, none an aggregate;
\* after MultipleValidationError(*errors) or add_errors(*errors) the
\* aggregate has the errors it had and after them those passed, in the order
\* passed, an aggregate passed standing for its errors in their order; the
\* call raises TypeError exactly when an argument is no error, and the
\* other aggregates are as they were.
C23_FlatOrdered ==
    /\ \A a \in 1..Len(heap) :
          /\ heap[a].t = "MVE"
          /\ \A i \in 1..Len(heap[a].errors) : heap[a].errors[i].t = "VE"
    /\ ret.op \in {"MultipleValidationError", "add_errors"} =>
          /\ ret.k = "raise" <=> Added(Len(ret.arg)).stopped
          /\ ret.obj.a <= Len(heap) => heap[ret.obj.a].errors = Added(Len(ret.arg)).errors
          /\ (ret.op = "MultipleValidationError" /\ ret.k = "raise") => heap = ret.before
          /\ \A a \in 1..Len(ret.before) : a # ret.obj.a => heap[a] = ret.before[a]

\* C23 witness: add_errors was given a single error and then an aggregate of
\* two errors; the aggregate has after the one it had the single error and
\* then the two, and is flat.
C23_Witness ==
    /\ ret.op = "add_errors"
    /\ ret.k = "ok"
    /\ Len(ret.arg) = 2
    /\ ret.arg[1].t = "VE"
    /\ ret.arg[2].t = "ref"
    /\ ret.arg[2] # ret.obj
    /\ Len(ret.before[ret.arg[2].a].errors) = 2
    /\ ret.before[ret.arg[2].a].errors[1] # ret.before[ret.arg[2].a].errors[2]
    /\ heap[ret.obj.a].errors
          = ret.before[ret.obj.a].errors \o <<ret.arg[1]>> \o ret.before[ret.arg[2].a].errors
    /\ Len(heap[ret.obj.a].errors) = 4

(* ------------------------------------------------------------------ *)
(* ContainerValidator (specification SpecContainer).  The stream of     *)
(* _iter_errors_and_items, which the class leaves to its subclasses,    *)
(* is what the caller's subclass yields.                                *)
(* ------------------------------------------------------------------ *)

MaxStream == 2

\* What a subclass yields: errors, items, and an aggregate of two errors
Yielded ==
    {ValidationError(<<"first">>, PyInt(1)), ValidationError(<<"second">>, PyInt(2)),
     PyInt(1), PyInt(2),
     [t |-> "MVE", errors |-> <<ValidationError(<<"first">>, PyInt(1)),
                                ValidationError(<<"second">>, PyInt(2))>>]}

\* The streams of at most MaxStream of them
Streams == UNION {[1..n -> Yielded] : n \in 0..MaxStream}

\* The value a container validator is given
ContainerValue == PyList(<<PyInt(0)>>)

\* ContainerValidator._reduce_items: value.__class__(iterable)
ReduceItems(iterable, value) == [value EXCEPT !.l = iterable]

\* ContainerValidator._validate, iterable being what
\* self._iter_errors_and_items(value, adapt, full) yields: the aggregate is
\* made from one argument, the generator of the errors.
ContainerValidate(iterable, value, adapt, full) ==
    LET iter_errors == SelectSeq(iterable, LAMBDA x : x.t = "VE")
        iter_items == SelectSeq(iterable, LAMBDA x : x.t # "VE")
        Reduced == [k |-> "ok", v |-> IF adapt THEN ReduceItems(iter_items, value) ELSE value]
        Aggregate(multi_error) ==
            IF multi_error.k = "raise" THEN [k |-> "raise", v |-> multi_error.v]
            ELSE IF multi_error.v.errors # <<>> THEN [k |-> "raise", v |-> multi_error.v]
            ELSE Reduced
    IN IF full
       THEN Aggregate(NewMultipleValidationError(<<[t |-> "generator", items |-> iter_errors]>>))
       ELSE IF iter_errors # <<>> THEN [k |-> "raise", v |-> Head(iter_errors)]
       ELSE Reduced

\* The record of a call of a container validator
ContainerCall(op, iterable, adapt, full, r) ==
    [op |-> op, obj |-> ContainerValue, arg |-> iterable, adapt |-> adapt, full |-> full,
     k |-> r.k, v |-> r.v]

\* ContainerValidator.validate(value, adapt)
DoContainerValidate(iterable, adapt) ==
    /\ ret' = ContainerCall("validate", iterable, adapt, FALSE,
                            ContainerValidate(iterable, ContainerValue, adapt, FALSE))
    /\ UNCHANGED <<NAMED_VALIDATORS, VALIDATOR_FACTORIES, REQUIRED_PROPERTIES,
                   ADDITIONAL_PROPERTIES, nextOid, held, registered, frames, heap, pc, lock>>

\* ContainerValidator.full_validate(value, adapt)
DoContainerFullValidate(iterable, adapt) ==
    /\ ret' = ContainerCall("full_validate", iterable, adapt, TRUE,
                            ContainerValidate(iterable, ContainerValue, adapt, TRUE))
    /\ UNCHANGED <<NAMED_VALIDATORS, VALIDATOR_FACTORIES, REQUIRED_PROPERTIES,
                   ADDITIONAL_PROPERTIES, nextOid, held, registered, frames, heap, pc, lock>>

NextContainer ==
    \/ \E iterable \in Streams, adapt \in BOOLEAN : DoContainerValidate(iterable, adapt)
    \/ \E iterable \in Streams, adapt \in BOOLEAN : DoContainerFullValidate(iterable, adapt)

SpecContainer == Init /\ [][NextContainer]_vars

\* The errors of a stream in yield order, an aggregate standing for its errors
RECURSIVE StreamErrors(_)
StreamErrors(iterable) ==
    IF iterable = <<>> THEN <<>>
    ELSE (CASE Head(iterable).t = "VE" -> <<Head(iterable)>>
            [] Head(iterable).t = "MVE" -> Head(iterable).errors
            [] OTHER -> <<>>)
         \o StreamErrors(Tail(iterable))

\* C25 as stated: with full the call raises one MultipleValidationError
\* that holds exactly the errors of the stream in yield order, aggregates
\* flattened, iff the stream has an error; without full it raises the first
\* error of the stream iff there is one; over a stream without an error it
\* returns the reduction of the items in yield order when adapt is true and
\* the value itself when adapt is false.
C25_ContainerValidate ==
    ret.op \in {"validate", "full_validate"} =>
        /\ (ret.full /\ StreamErrors(ret.arg) # <<>>) =>
              /\ ret.k = "raise"
              /\ ret.v = [t |-> "MVE", errors |-> StreamErrors(ret.arg)]
        /\ (~ret.full /\ StreamErrors(ret.arg) # <<>>) =>
              /\ ret.k = "raise"
              /\ ret.v = SelectSeq(ret.arg, LAMBDA x : x.t \in {"VE", "MVE"})[1]
        /\ StreamErrors(ret.arg) = <<>> =>
              /\ ret.k = "ok"
              /\ ret.v = IF ret.adapt THEN PyList(ret.arg) ELSE ret.obj

(* ------------------------------------------------------------------ *)
(* The two modes of validate (specification SpecModes): a caller chains *)
(* container validators and asks is_valid.                              *)
(* ------------------------------------------------------------------ *)

\* The lists and the dict of the caller: [1, 2], {"a": 1}, ["1"]
ModesHeap ==
    << PyList(<<PyInt(1), PyInt(2)>>),
       DictOf(<<"a">>, <<PyInt(1)>>),
       PyList(<<PyStr(<<"1">>)>>) >>

ModesInputs == {PyInt(1)} \cup {PyRef(a) : a \in 1..Len(ModesHeap)}

\* The descriptors the caller has parse compile: "integer", ["integer"] and
\* {"a": "integer"}
ModesDescriptors ==
    {Name("integer"), PyList(<<Name("integer")>>), Schema(<<Name("a")>>, <<Name("integer")>>)}

\* The validators the caller constructs itself, h being those it holds:
\* ChainOf(v, w) and Range(v, min_value=0)
ModesConstructions(h) ==
    {[cls |-> "ChainOf", schemas |-> <<v, w>>] : v \in h, w \in h}
    \cup {[cls |-> "Range", schema |-> v, min_value |-> PyInt(0), max_value |-> PyNone] :
             v \in h}

InitModes ==
    /\ Imported
    /\ heap = ModesHeap

NextModes ==
    \/ \E obj \in ModesDescriptors : DoParse(obj)
    \/ \E c \in ModesConstructions(held) : DoConstruct(c)
    \/ \E self \in held, value \in ModesInputs, adapt \in BOOLEAN :
          DoValidate(self, value, adapt)
    \/ \E self \in held, value \in ModesInputs : DoIsValid(self, value)

SpecModes == InitModes /\ [][NextModes]_vars

\* C27 as stated: is_valid(value) is true exactly when validate(value) with
\* adapt does not raise a ValidationError.
C27_ModesAgree ==
    ret.op = "is_valid" =>
        ((ret.k = "ok" /\ ret.v = PyBool(TRUE))
            <=> ~(/\ Seen(Validate(ret.obj, ret.arg, TRUE, Memory), Len(heap)).k = "raise"
                  /\ Seen(Validate(ret.obj, ret.arg, TRUE, Memory), Len(heap)).v.t = "VE"))

====
